---- MODULE Spec2Model ----
(***************************************************************************)
(* A model of the SeedLink v4 server core of damb/slink: the v4 command    *)
(* grammar (src/src/v4/cmd), the per-client station negotiator and Select  *)
(* (slink-server/src/negotiate.rs, select.rs), and the actor system made   *)
(* of the accept loop, the per-client reader and writer and the main loop  *)
(* (slink-server/src/accept.rs, client.rs, server.rs, dispatch.rs).        *)
(*                                                                         *)
(* Text is modelled as a sequence of one-character strings, so that the    *)
(* conversions of the code (to_lowercase, glob to regex) are computed.     *)
(***************************************************************************)
EXTENDS Integers, Sequences, FiniteSets, TLC

(***************************************************************************)
(* Bounds of the model.                                                    *)
(***************************************************************************)
\* Total number of command lines all clients together write to their sockets.
MaxLines == 3
\* Capacity of a client's writer inbox: channel(64) of spawn_client, scaled down.
WriterInboxCapacity == 1
\* Capacity of the main loop's inbox: channel(64) of spawn_main_loop, scaled down.
MainInboxCapacity == 3
\* Bound on the reader -> writer unbounded channel (it has no bound in the code).
MaxInternal == 2
\* Number of commands fed to a negotiator in the negotiator specification.
MaxNegSteps == 2
\* Number of calls made on a Select in the Select specification.
MaxSelSteps == 3
\* Length of the blob without line ending fed to the codec.
BlobLen == 300
\* Number of reads of chosen size that append bytes to the codec's buffer.
MaxFeeds == 3
\* Number of replies of the peer queued unread on a v3 connection.
MaxReplies == 2
\* Number of store calls made on a StateDB
MaxStores == 2
\* Number of recover_state calls made on a Connection
MaxRecovers == 2

(***************************************************************************)
(* Program constants.                                                      *)
(***************************************************************************)
\* slink-server/src/lib.rs: DEFAULT_PROTO_VERSION, HIGHEST_SUPPORTED_PROTO_VERSION
DEFAULT_PROTO_VERSION == [major |-> 4, minor |-> 0]
HIGHEST_SUPPORTED_PROTO_VERSION == [major |-> 4, minor |-> 0]

(***************************************************************************)
(* Option, and text helpers.                                               *)
(***************************************************************************)
None == [tag |-> "None"]
Some(x) == [tag |-> "Some", v |-> x]
IsSome(o) == o.tag = "Some"

\* char::to_lowercase on the ASCII letters the model uses
LowerChar(ch) ==
    CASE ch = "A" -> "a" [] ch = "B" -> "b" [] ch = "D" -> "d" [] ch = "E" -> "e"
      [] ch = "F" -> "f" [] ch = "H" -> "h" [] ch = "I" -> "i" [] ch = "L" -> "l"
      [] ch = "N" -> "n" [] ch = "O" -> "o" [] ch = "P" -> "p" [] ch = "R" -> "r"
      [] ch = "S" -> "s" [] ch = "T" -> "t" [] ch = "U" -> "u" [] ch = "X" -> "x"
      [] ch = "Y" -> "y" [] ch = "Z" -> "z" [] ch = "C" -> "c" [] ch = "G" -> "g"
      [] ch = "V" -> "v" [] ch = "K" -> "k" [] ch = "J" -> "j" [] ch = "M" -> "m"
      [] ch = "Q" -> "q" [] ch = "W" -> "w"
      [] OTHER -> ch

\* str::to_lowercase
ToLowercase(s) == [i \in DOMAIN s |-> LowerChar(s[i])]

RECURSIVE Concat(_)
\* the concatenation of a sequence of texts
Concat(ss) == IF ss = <<>> THEN <<>> ELSE Head(ss) \o Concat(Tail(ss))

\* the keywords, Auth::NAME ... UserAgent::NAME
NAME_AUTH == <<"a","u","t","h">>
NAME_BYE == <<"b","y","e">>
NAME_DATA == <<"d","a","t","a">>
NAME_END == <<"e","n","d">>
NAME_ENDFETCH == <<"e","n","d","f","e","t","c","h">>
NAME_HELLO == <<"h","e","l","l","o">>
NAME_INFO == <<"i","n","f","o">>
NAME_SELECT == <<"s","e","l","e","c","t">>
NAME_SLPROTO == <<"s","l","p","r","o","t","o">>
NAME_STATION == <<"s","t","a","t","i","o","n">>
NAME_USERAGENT == <<"u","s","e","r","a","g","e","n","t">>

(***************************************************************************)
(* Protocol errors, src/src/v4/error.rs.                                   *)
(***************************************************************************)
\* ErrorCode::code
Code(code) ==
    CASE code = "Generic" -> "GENERIC"
      [] code = "UnsupportedCommand" -> "UNSUPPORTED"
      [] code = "UnexpectedCommand" -> "UNEXPECTED"
      [] code = "IncorrectArguments" -> "ARGUMENTS"
      [] OTHER -> "INTERNAL"

\* ErrorCode::description
Description(code) ==
    CASE code = "Generic" -> "Generic error"
      [] code = "UnsupportedCommand" -> "Command not recognized or not supported"
      [] code = "UnexpectedCommand" -> "Command not expected"
      [] code = "IncorrectArguments" -> "Incorrect command arguments"
      [] OTHER -> "Internal error"

\* Error::new: the message is the description, info is false
NewError(code) == [code |-> code, message |-> <<Description(code)>>, info |-> FALSE]

\* Display for Error: "ERROR <CODE>: <message>"
ErrorToString(err) == <<"ERROR ", Code(err.code), ": ">> \o err.message

(***************************************************************************)
(* Results of fallible operations: Ok(v), Err(e), and Panic where the      *)
(* code panics (index out of bounds, unwrap of None, todo!()).             *)
(***************************************************************************)
Ok(x) == [res |-> "Ok", v |-> x]
Err(e) == [res |-> "Err", e |-> e]
Panic == [res |-> "Panic"]
IsOk(r) == r.res = "Ok"
IsErr(r) == r.res = "Err"
IsPanic(r) == r.res = "Panic"

(***************************************************************************)
(* The v4 command grammar, src/src/v4/cmd.  A command line (the codec has  *)
(* removed its terminator) is [kw, args]: the keyword and the words after  *)
(* it, which single spaces separate.                                       *)
(***************************************************************************)
RECURSIVE Split(_, _)
\* str::split(sep): the pieces of s between the occurrences of sep
Split(s, sep) ==
    IF \A i \in DOMAIN s : s[i] # sep
    THEN <<s>>
    ELSE LET i == CHOOSE k \in DOMAIN s : s[k] = sep /\ \A j \in 1..(k - 1) : s[j] # sep
         IN  <<SubSeq(s, 1, i - 1)>> \o Split(SubSeq(s, i + 1, Len(s)), sep)

\* s.splitn(2, [' ', '\t']).collect().len()
SplitLen(line) == IF line.args = <<>> THEN 1 ELSE 2

\* check_cmd_length
CheckCmdLength(line, expected_length) ==
    IF SplitLen(line) # expected_length THEN Err(NewError("IncorrectArguments")) ELSE Ok(<<>>)

Digits == <<"0", "1", "2", "3", "4", "5", "6", "7", "8", "9">>
IsDigit(ch) == \E d \in 1..10 : Digits[d] = ch
DigitValue(ch) == (CHOOSE d \in 1..10 : Digits[d] = ch) - 1

RECURSIVE DecimalValue(_)
DecimalValue(s) ==
    IF s = <<>> THEN 0 ELSE 10 * DecimalValue(SubSeq(s, 1, Len(s) - 1)) + DigitValue(s[Len(s)])

\* str::parse::<u8>
ParseU8(s) ==
    IF s # <<>> /\ (\A i \in DOMAIN s : IsDigit(s[i])) /\ Len(s) <= 3 /\ DecimalValue(s) <= 255
    THEN Ok(DecimalValue(s))
    ELSE Err(NewError("IncorrectArguments"))

\* SlProto::from_str
SlProtoFromStr(s) ==
    IF \A i \in DOMAIN s : s[i] # "."
    THEN Err(NewError("IncorrectArguments"))
    ELSE LET dot == CHOOSE k \in DOMAIN s : s[k] = "." /\ \A j \in 1..(k - 1) : s[j] # "."
             major == ParseU8(SubSeq(s, 1, dot - 1))
             minor == ParseU8(SubSeq(s, dot + 1, Len(s)))
         IN  IF IsErr(major) THEN major
             ELSE IF IsErr(minor) THEN minor
             ELSE Ok([type |-> "SlProto", major |-> major.v, minor |-> minor.v])

\* Station::from_str (the words carry no surrounding white space)
StationFromStr(args) ==
    IF Concat(args) = <<>>
    THEN Err(NewError("IncorrectArguments"))
    ELSE Ok([type |-> "Station", station_pattern |-> args[1]])

\* SelectPattern::from_str
SelectPatternFromStr(s) ==
    LET bycolon == Split(s, ":")
        byperiod == Split(bycolon[1], ".")
        exclude == byperiod[1][1] = "!"
        hasfilter == Len(bycolon) = 2
        hasformat == Len(byperiod) = 2
    IN  IF hasfilter /\ bycolon[2] = <<>> THEN Err(NewError("IncorrectArguments"))
        ELSE IF hasformat /\ byperiod[2] = <<>> THEN Err(NewError("IncorrectArguments"))
        ELSE IF byperiod[1] = <<>> THEN Panic
        ELSE IF exclude /\ hasfilter THEN Err(NewError("IncorrectArguments"))
        ELSE IF exclude /\ Len(byperiod[1]) < 2 THEN Err(NewError("IncorrectArguments"))
        ELSE Ok([exclude |-> exclude,
                 stream_pattern |-> IF exclude THEN Tail(byperiod[1]) ELSE byperiod[1],
                 format_subformat_pattern |-> IF hasformat THEN Some(byperiod[2]) ELSE None,
                 filter |-> IF hasfilter THEN Some(bycolon[2]) ELSE None])

\* Select::from_str: every word is a pattern; the first failure is returned
SelectFromStr(args) ==
    LET parsed == [i \in DOMAIN args |-> SelectPatternFromStr(args[i])]
    IN  IF \E i \in DOMAIN args : ~IsOk(parsed[i])
        THEN parsed[CHOOSE i \in DOMAIN args : ~IsOk(parsed[i]) /\ \A j \in 1..(i - 1) : IsOk(parsed[j])]
        ELSE Ok([type |-> "Select", patterns |-> [i \in DOMAIN args |-> parsed[i].v]])

\* Info::from_str
InfoFromStr(args) ==
    LET word == ToLowercase(args[1])
        item == CASE word = <<"i","d">> -> "Id"
                  [] word = <<"f","o","r","m","a","t","s">> -> "Formats"
                  [] word = <<"s","t","a","t","i","o","n","s">> -> "Stations"
                  [] word = <<"s","t","r","e","a","m","s">> -> "Streams"
                  [] word = <<"c","o","n","n","e","c","t","i","o","n","s">> -> "Connections"
                  [] word = <<"c","a","p","a","b","i","l","i","t","i","e","s">> -> "Capabilities"
                  [] OTHER -> "Invalid"
        bad == Err(NewError("IncorrectArguments"))
        pats == IF Len(args) >= 3 THEN Split(args[3], ".") ELSE <<>>
    IN  IF item = "Invalid" THEN bad
        ELSE IF item \in {"Id", "Formats", "Capabilities"} /\ Len(args) > 1 THEN bad
        ELSE IF Len(args) = 1
             THEN Ok([type |-> "Info", item |-> item, station_pattern |-> None,
                      stream_pattern |-> None, format_subformat_pattern |-> None])
        ELSE IF args[2] = <<>> THEN bad
        ELSE IF Len(args) = 2
             THEN Ok([type |-> "Info", item |-> item, station_pattern |-> Some(args[2]),
                      stream_pattern |-> None, format_subformat_pattern |-> None])
        ELSE IF Len(pats) = 1
             THEN IF pats[1] = <<>> THEN bad
                  ELSE Ok([type |-> "Info", item |-> item, station_pattern |-> Some(args[2]),
                           stream_pattern |-> Some(pats[1]), format_subformat_pattern |-> None])
        ELSE IF pats[2] = <<>> THEN bad
        ELSE Ok([type |-> "Info", item |-> item, station_pattern |-> Some(args[2]),
                 stream_pattern |-> Some(pats[1]), format_subformat_pattern |-> Some(pats[2])])

\* UserAgent::from_str, UserAgentInfo::from_str
UserAgentFromStr(args) ==
    IF \E i \in DOMAIN args : Len(Split(args[i], "/")) # 2
    THEN Err(NewError("IncorrectArguments"))
    ELSE Ok([type |-> "UserAgent",
             info |-> [i \in DOMAIN args |->
                          [program_or_library |-> Split(args[i], "/")[1],
                           version |-> Split(args[i], "/")[2]]]])

\* Auth::from_str, AuthMethod::from_str
AuthFromStr(args) ==
    LET method == ToLowercase(args[1])
    IN  IF method = <<"u","s","e","r","p","a","s","s">> /\ Len(args) = 3
        THEN Ok([type |-> "Auth", method |-> "UserPass", credentials |-> Tail(args)])
        ELSE IF method = <<"t","o","k","e","n">> /\ Len(args) = 2
        THEN Ok([type |-> "Auth", method |-> "JWT", credentials |-> Tail(args)])
        ELSE Err(NewError("IncorrectArguments"))

\* Data::default()
DataDefault == [type |-> "Data", seq_num |-> None, start_time |-> None, end_time |-> None]

\* the result of a sub-parser after check_cmd_length(.., 2)?
WithArgs(line, parsed) ==
    IF IsErr(CheckCmdLength(line, 2)) THEN CheckCmdLength(line, 2) ELSE parsed

\* the result of a command without arguments after check_cmd_length(.., 1)?
NoArgs(line, cmd) ==
    IF IsErr(CheckCmdLength(line, 1)) THEN CheckCmdLength(line, 1) ELSE Ok(cmd)

\* an INFO error left as the sub-parser returned it
MarkInfoNot(r) == r

\* an INFO error carries info = true
MarkInfo(r) == IF IsErr(r) THEN Err([r.e EXCEPT !.info = TRUE]) ELSE r

\* the Data arm of Command::from_str: with an argument the arguments are
\* dropped (Data::default()); without one split[1] is out of bounds
DataArm(line) == IF SplitLen(line) = 2 THEN Ok(DataDefault) ELSE Panic

\* the fallback arm of Command::from_str: Unknown::new(other), other is cmd_id
UnknownArm(line, cmd_id) == Ok([type |-> "Unknown", command_name |-> cmd_id])

\* Command::from_str
CommandFromStr(line) ==
    LET cmd_id == ToLowercase(line.kw)
    IN  CASE cmd_id = NAME_AUTH -> WithArgs(line, AuthFromStr(line.args))
          [] cmd_id = NAME_BYE -> NoArgs(line, [type |-> "Bye"])
          [] cmd_id = NAME_DATA -> DataArm(line)
          [] cmd_id = NAME_END -> NoArgs(line, [type |-> "End"])
          [] cmd_id = NAME_ENDFETCH -> NoArgs(line, [type |-> "EndFetch"])
          [] cmd_id = NAME_HELLO -> NoArgs(line, [type |-> "Hello"])
          [] cmd_id = NAME_INFO -> MarkInfo(WithArgs(line, InfoFromStr(line.args)))
          [] cmd_id = NAME_SELECT -> WithArgs(line, SelectFromStr(line.args))
          [] cmd_id = NAME_SLPROTO -> WithArgs(line, SlProtoFromStr(line.args[1]))
          [] cmd_id = NAME_STATION -> WithArgs(line, StationFromStr(line.args))
          [] cmd_id = NAME_USERAGENT -> WithArgs(line, UserAgentFromStr(line.args))
          [] OTHER -> UnknownArm(line, cmd_id)

(***************************************************************************)
(* Select, slink-server/src/select.rs.  A Select is a sequence of station  *)
(* selects [id, seq_num, streams]; a sequence number is All, Next or       *)
(* Number(n).                                                              *)
(***************************************************************************)
SeqAll == [tag |-> "All"]
SeqNext == [tag |-> "Next"]
SeqNumber(n) == [tag |-> "Number", n |-> n]

\* create_regex: '*' becomes ".*" and '?' becomes "."; the regex is a
\* sequence of atoms, "." for any character, ".*" for any text
CreateRegex(pattern) ==
    [i \in DOMAIN pattern |->
        IF pattern[i] = "*" THEN ".*" ELSE IF pattern[i] = "?" THEN "." ELSE pattern[i]]

RECURSIVE MatchPrefix(_, _)
\* whether the regex matches a prefix of s
MatchPrefix(re, s) ==
    IF re = <<>> THEN TRUE
    ELSE IF Head(re) = ".*"
         THEN \E k \in 0..Len(s) : MatchPrefix(Tail(re), SubSeq(s, k + 1, Len(s)))
    ELSE s # <<>> /\ (Head(re) = "." \/ Head(re) = Head(s)) /\ MatchPrefix(Tail(re), Tail(s))

\* Regex::is_match: the regex is not anchored, it matches anywhere in s
IsMatch(re, s) == \E i \in 1..(Len(s) + 1) : MatchPrefix(re, SubSeq(s, i, Len(s)))

\* From<Stream> for StreamSelect
StreamSelectFrom(stream) ==
    [selected |-> TRUE, excluded |-> FALSE, id |-> stream.id, format |-> stream.format,
     subformat |-> stream.subformat, start_time |-> None, end_time |-> None, filter |-> None]

\* From<Station> for StationSelect
StationSelectFrom(station) ==
    [id |-> station.id, seq_num |-> SeqNumber(station.start_seq),
     streams |-> [i \in DOMAIN station.streams |-> StreamSelectFrom(station.streams[i])]]

\* Select::new
SelectNew(stations) == [i \in DOMAIN stations |-> StationSelectFrom(stations[i])]

\* StreamSelect::is_selected
IsSelected(stream_select) == stream_select.selected /\ ~stream_select.excluded

\* StationSelect::has_selected
StationHasSelected(sta_select) ==
    \E i \in DOMAIN sta_select.streams : sta_select.streams[i].selected

\* Select::has_selected
HasSelected(select) == \E i \in DOMAIN select : StationHasSelected(select[i])

\* Select::select_all
SelectAll(select) ==
    [i \in DOMAIN select |->
        [select[i] EXCEPT !.streams =
            [j \in DOMAIN select[i].streams |-> [select[i].streams[j] EXCEPT !.selected = TRUE]]]]

\* Select::select_none
SelectNone(select) ==
    [i \in DOMAIN select |->
        [select[i] EXCEPT !.streams =
            [j \in DOMAIN select[i].streams |-> [select[i].streams[j] EXCEPT !.selected = FALSE]]]]

\* an apply whose selection lifts an earlier exclusion
ApplyToStreamLifting(stream_select, exclude, stream_re, format_subformat_re, filter) ==
    IF ~IsMatch(stream_re, stream_select.id) THEN stream_select
    ELSE IF exclude THEN [stream_select EXCEPT !.excluded = TRUE]
    ELSE [stream_select EXCEPT !.selected = TRUE, !.excluded = FALSE]

\* the body of the two loops of Select::apply for one stream select
ApplyToStream(stream_select, exclude, stream_re, format_subformat_re, filter) ==
    IF ~IsMatch(stream_re, stream_select.id) THEN stream_select
    ELSE IF IsSome(format_subformat_re)
            /\ ~IsMatch(format_subformat_re.v, <<stream_select.format, stream_select.subformat>>)
         THEN stream_select
    ELSE IF exclude THEN [stream_select EXCEPT !.excluded = TRUE]
    ELSE [stream_select EXCEPT !.selected = TRUE,
                               !.filter = IF IsSome(@) THEN @ ELSE filter]

\* Select::apply; its assertion fails for a filter given with exclude
Apply(select, exclude, stream_pattern, format_subformat_pattern, filter) ==
    IF IsSome(filter) /\ exclude THEN Panic
    ELSE LET stream_re == CreateRegex(stream_pattern)
             format_subformat_re ==
                 IF IsSome(format_subformat_pattern)
                 THEN Some(CreateRegex(format_subformat_pattern.v)) ELSE None
         IN  Ok([i \in DOMAIN select |->
                   [select[i] EXCEPT !.streams =
                      [j \in DOMAIN select[i].streams |->
                          ApplyToStream(select[i].streams[j], exclude, stream_re,
                                        format_subformat_re, filter)]]])

\* an update that takes every sequence number given
NextSeqNumAlways(orig, seq_num) == seq_num

\* the update of one station's sequence number in Select::set_seq_num
NextSeqNum(orig, seq_num) ==
    IF seq_num.tag \in {"All", "Next"} THEN seq_num
    ELSE IF orig.tag = "Number" /\ seq_num.n > orig.n THEN seq_num
    ELSE orig

\* Select::set_seq_num
SetSeqNum(select, seq_num) ==
    [i \in DOMAIN select |->
        IF ~StationHasSelected(select[i]) THEN select[i]
        ELSE [select[i] EXCEPT !.seq_num = NextSeqNum(@, seq_num)]]

\* Select::set_time
SetTime(select, start_time, end_time) ==
    [i \in DOMAIN select |->
        [select[i] EXCEPT !.streams =
            [j \in DOMAIN select[i].streams |->
                IF ~IsSelected(select[i].streams[j]) THEN select[i].streams[j]
                ELSE [select[i].streams[j] EXCEPT !.start_time = Some(start_time),
                                                  !.end_time = end_time]]]]

(***************************************************************************)
(* The station negotiator, slink-server/src/negotiate.rs.                  *)
(***************************************************************************)
\* a State::next that takes DATA only after a SELECT
StateNextDataAfterSelect(state, cmd) ==
    CASE state = "Station" /\ cmd.type = "Select" -> "Select"
      [] state = "Select" /\ cmd.type = "Select" -> "Select"
      [] state = "Select" /\ cmd.type = "Data" -> "Finished"
      [] OTHER -> "Error"

\* State::next
StateNext(state, cmd) ==
    CASE state = "Station" /\ cmd.type = "Select" -> "Select"
      [] state = "Station" /\ cmd.type = "Data" -> "Finished"
      [] state = "Select" /\ cmd.type = "Select" -> "Select"
      [] state = "Select" /\ cmd.type = "Data" -> "Finished"
      [] OTHER -> "Error"

\* StationNegotiator::new
StationNegotiatorNew(select) == [select |-> select, state |-> "Station"]

RECURSIVE ApplyPatterns(_, _)
\* the loop of StationNegotiator::next over the patterns of a SELECT
ApplyPatterns(select, patterns) ==
    IF patterns = <<>> THEN Ok(select)
    ELSE IF IsSome(Head(patterns).filter) /\ Head(patterns).exclude THEN Panic
    ELSE ApplyPatterns(Apply(select, Head(patterns).exclude, Head(patterns).stream_pattern,
                             Head(patterns).format_subformat_pattern, Head(patterns).filter).v,
                       Tail(patterns))

\* a Data arm that leaves the Select as it is
NegotiateDataSkipped(select, cmd) == select

\* the Data arm of StationNegotiator::next
NegotiateData(select, cmd) ==
    LET numbered == SetSeqNum(select, IF IsSome(cmd.seq_num) THEN cmd.seq_num.v ELSE SeqNext)
    IN  IF IsSome(cmd.start_time)
        THEN SetTime(numbered, cmd.start_time.v, cmd.end_time)
        ELSE numbered

\* the negotiator and the value returned once the patterns of a SELECT are
\* applied, r being the outcome of the loop
Selected(neg, state, r) ==
    IF IsOk(r)
    THEN [neg |-> [select |-> r.v, state |-> state], result |-> Ok(<<>>)]
    ELSE [neg |-> [neg EXCEPT !.state = state], result |-> Panic]

\* StationNegotiator::next: [neg, result], the negotiator afterwards and the
\* value returned
NegotiatorNext(neg, cmd) ==
    LET state == StateNext(neg.state, cmd)
    IN  IF state = "Error"
        THEN [neg |-> [neg EXCEPT !.state = state],
              result |-> Err(NewError("UnexpectedCommand"))]
        ELSE IF cmd.type = "Select"
        THEN Selected(neg, state, ApplyPatterns(neg.select, cmd.patterns))
        ELSE [neg |-> [select |-> NegotiateData(neg.select, cmd), state |-> state],
              result |-> Ok(<<>>)]

(***************************************************************************)
(* The application backend (trait SeedLinkServer) and the inventory the    *)
(* model serves: one station XX_YY holding one stream.                     *)
(***************************************************************************)
Implementation == "NeedLink"
ImplementationVersion == "0.1"
DataCenterDescription == "FOO DC"

StationXXYY ==
    [id |-> <<"X","X","_","Y","Y">>, start_seq |-> 1, end_seq |-> 3,
     streams |-> << [id |-> <<"0","0","_","B","_","H","_","Z">>, format |-> "2", subformat |-> "D"] >>]

Inventory == <<StationXXYY>>

\* SeedLinkServer::inventory_streams: the stations whose NET_STA matches
InventoryStreams(station_pattern) ==
    LET Matching(sta) == IsMatch(CreateRegex(station_pattern), sta.id)
    IN  SelectSeq(Inventory, Matching)

(***************************************************************************)
(* Responses and their encodings, src/src/v4/util.rs and tcp_write.        *)
(***************************************************************************)
\* to_first_hello_resp_line: the list of versions is written in reverse
ToFirstHelloRespLine(implementation, implementation_version, protocol_versions) ==
    <<"SeedLink v", ToString(protocol_versions[1].major), ".", ToString(protocol_versions[1].minor),
      " (", implementation, "/", implementation_version, ") ::">>
    \o Concat([i \in DOMAIN protocol_versions |->
                 LET v == protocol_versions[Len(protocol_versions) + 1 - i]
                 IN  <<" SLPROTO:", ToString(v.major), ".", ToString(v.minor)>>])

\* to_id_info (with util::to_id_info_v4)
ToIdInfo(protocol_versions) ==
    [software |-> ToFirstHelloRespLine(Implementation, ImplementationVersion, protocol_versions),
     organization |-> DataCenterDescription]

\* a HELLO response of the banner alone
HelloBannerOnly(n) ==
    << [t |-> "line", n |-> n, via |-> "inbox",
        text |-> ToFirstHelloRespLine(Implementation, ImplementationVersion,
                                      <<HIGHEST_SUPPORTED_PROTO_VERSION>>)] >>

\* the lines tcp_write writes for FromServer::Hello
HelloLines(n) ==
    << [t |-> "line", n |-> n, via |-> "inbox",
        text |-> ToFirstHelloRespLine(Implementation, ImplementationVersion,
                                      <<HIGHEST_SUPPORTED_PROTO_VERSION>>)],
       [t |-> "line", n |-> n, via |-> "inbox", text |-> <<DataCenterDescription>>] >>

\* what tcp_write writes for one message of the writer inbox
EncodeFromServer(msg) ==
    CASE msg.type = "Hello" -> HelloLines(msg.n)
      [] msg.type = "Info" ->
            << [t |-> "packet", n |-> msg.n, via |-> "inbox",
                format |-> IF msg.info.type = "Error" THEN "JE" ELSE "JI",
                payload |-> msg.info] >>
      [] msg.type = "Ok" -> << [t |-> "line", n |-> msg.n, via |-> "inbox", text |-> <<"OK">>] >>
      [] OTHER -> << [t |-> "line", n |-> msg.n, via |-> "inbox", text |-> msg.text] >>

\* what tcp_write writes for one InternalMessage::ProtocolError
EncodeInternal(msg) ==
    << [t |-> "line", n |-> msg.n, via |-> "internal", text |-> ErrorToString(msg.err)] >>

(***************************************************************************)
(* The state of the server.                                                *)
(***************************************************************************)
\* the ClientIds the accept loop hands out in the model
ClientIds == {0, 1}

VARIABLES
    alphabet,     \* the command lines the clients of this run choose from
    sent,         \* per client, the lines it has written to its socket
    sock,         \* per client, the lines written and not yet read by the server
    peer_closed,  \* per client, whether it has shut down its sending side
    next_id,      \* ServerHandle.next_id
    actor,        \* per client, the state of its actor task (start_client)
    framed,       \* per client, the FramedRead of tcp_read
    codec,        \* per client, the SeedLinkCodec of tcp_read
    next_cmd,     \* per client, the variable next_cmd of tcp_read
    rpc,          \* per client, the position of tcp_read
    internal,     \* per client, the channel from tcp_read to tcp_write
    inbox,        \* per client, the channel from the main loop to tcp_write
    wpc,          \* per client, the position of tcp_write
    out,          \* per client, what tcp_write has written to the socket
    main_inbox,   \* the channel to the main loop
    clients,      \* ServerData.clients
    registered,   \* history: the main loop has received NewClient of the client
    main,         \* the state of the main loop task
    forwarded,    \* per client, the lines whose command or error tcp_read sent to the main loop
    delivered,    \* per client, the lines whose command or error the main loop received
    enqueued,     \* per client, the replies the main loop put into the inbox
    neg,          \* a StationNegotiator on its own
    neg_result,   \* what its last next(cmd) returned
    neg_cmds,     \* the commands fed to it
    sel,          \* a Select on its own
    sel_prev,     \* that Select before the last call
    sel_op,       \* the last call made on it
    sel_steps,    \* the number of calls made on it
    sel_excluded, \* the streams <<i, j>> an apply with exclude = true has matched
    dec,          \* a SeedLinkCodec on its own: next_index, is_discarding, protocol_version
    dec_buf,      \* the BytesMut its decode is called with
    dec_input,    \* the bytes not yet appended to the buffer
    dec_out,      \* what its decode calls have returned, Ok(None) left out
    dec_idle,     \* whether decode has returned Ok(None) and no byte has arrived since
    dec_feeds,    \* the number of times bytes were appended to the buffer
    dec_case,     \* the bytes this run feeds: a command c, a terminator t, after a blob or not
    v3,           \* a FramedConnectionV3: state, decoder phase, open, batch_cmd_mode,
                  \* expect_info_resp, and the replies of the peer not yet read
    v3_last,      \* the last operation called on it: arguments, commands written, value returned
    call,         \* the last call of a function of the client library on its own: arguments, value
    db,           \* a StateDB and the Connection configured from it: rows, store tasks, stream_configs
    db_last       \* the last call made on them that returned

server_vars ==
    <<alphabet, sent, sock, peer_closed, next_id, actor, framed, codec, next_cmd, rpc,
      internal, inbox, wpc, out, main_inbox, clients, registered, main, forwarded, delivered,
      enqueued>>
neg_vars == <<neg, neg_result, neg_cmds>>
sel_vars == <<sel, sel_prev, sel_op, sel_steps, sel_excluded>>
dec_vars == <<dec, dec_buf, dec_input, dec_out, dec_idle, dec_feeds, dec_case>>
v3_vars == <<v3, v3_last>>
lib_vars == <<call, db, db_last>>
aux_vars == <<neg_vars, sel_vars, dec_vars, v3_vars, lib_vars>>
vars == <<server_vars, aux_vars>>

\* no Select on its own is in use
SelIdle ==
    /\ sel = <<>>
    /\ sel_prev = <<>>
    /\ sel_op = [op |-> "new"]
    /\ sel_steps = 0
    /\ sel_excluded = {}

\* no codec on its own is in use
DecIdle ==
    /\ dec = [next_index |-> 0, is_discarding |-> FALSE, protocol_version |-> DEFAULT_PROTO_VERSION]
    /\ dec_buf = <<>>
    /\ dec_input = <<>>
    /\ dec_out = <<>>
    /\ dec_idle = TRUE
    /\ dec_feeds = 0
    /\ dec_case = [kind |-> "none"]

\* no function of the client library is called on its own, no StateDB is open
LibIdle ==
    /\ call = [fn |-> "none"]
    /\ db = [open |-> FALSE]
    /\ db_last = [op |-> "new"]

\* no v3 connection is in use
V3Idle ==
    /\ v3 = [state |-> "Initialized", phase |-> "HandShaking", open |-> TRUE, batch_cmd_mode |-> FALSE,
             expect_info_resp |-> FALSE, replies |-> <<>>]
    /\ v3_last = [op |-> "new"]

(***************************************************************************)
(* The command lines of the clients.                                       *)
(***************************************************************************)
Line(kw, args) == [kw |-> kw, args |-> args, long |-> FALSE]

LineHello == Line(<<"H","E","L","L","O">>, <<>>)
LineSlProto40 == Line(<<"S","L","P","R","O","T","O">>, << <<"4",".","0">> >>)
LineInfoId == Line(<<"I","N","F","O">>, << <<"i","d">> >>)
LineInfo == Line(<<"I","N","F","O">>, <<>>)
LineStation == Line(<<"S","T","A","T","I","O","N">>, << <<"X","X","_","Y","Y">> >>)
LineSelect == Line(<<"S","E","L","E","C","T">>, << <<"!","*","_","Z">> >>)
LineSelectNoArg == Line(<<"S","E","L","E","C","T">>, <<>>)
LineData == Line(<<"D","A","T","A">>, <<>>)
LineDataAll == Line(<<"D","A","T","A">>, << <<"a","l","l">> >>)
LineFoo == Line(<<"F","O","O">>, << <<"b","a","r">> >>)
LineUserAgent == Line(<<"U","S","E","R","A","G","E","N","T">>, << <<"a","/","1">> >>)

\* the runs: for every connection, the command lines its peer chooses from;
\* a connection without lines is not made in that run
Alphabets ==
    { [c \in ClientIds |-> IF c = 0 THEN {LineStation, LineSelect, LineData, LineDataAll} ELSE {}],
      [c \in ClientIds |-> IF c = 0 THEN {LineHello, LineSlProto40, LineInfoId} ELSE {}],
      [c \in ClientIds |-> IF c = 0 THEN {LineFoo, LineInfo, LineSelectNoArg} ELSE {}],
      [c \in ClientIds |-> {LineHello}],
      [c \in ClientIds |-> IF c = 0 THEN {LineHello} ELSE {LineUserAgent, LineStation}] }

(***************************************************************************)
(* FramedRead over the SeedLinkCodec (slink-server/src/seedlink.rs).       *)
(***************************************************************************)
\* SeedLinkCodec::new
CodecNew == [protocol_version |-> DEFAULT_PROTO_VERSION, protocol_version_locked |-> FALSE]

\* SeedLinkCodec::try_set_protocol_version: [codec, result]
TrySetProtocolVersion(cd, protocol_version) ==
    IF cd.protocol_version_locked
    THEN [codec |-> cd,
          result |-> Err([NewError("UnexpectedCommand") EXCEPT
                            !.message = <<Description("UnexpectedCommand"),
                                          ": failed to switch protocol version">>])]
    ELSE [codec |-> [cd EXCEPT !.protocol_version = protocol_version], result |-> Ok(<<>>)]

\* SeedLinkCodec::lock_protocol_version
LockProtocolVersion(cd) == [cd EXCEPT !.protocol_version_locked = TRUE]

\* the map_err of SeedLinkCodec::decode: a protocol error becomes
\* ParseError::ProtocolError
MapErr(r) == IF IsErr(r) THEN Err([kind |-> "ProtocolError", err |-> r.e]) ELSE r

\* SeedLinkCodec::decode of one complete line: a command, a ParseError, or a panic
Decode(cd, line) ==
    IF line.long THEN Err([kind |-> "CommandLineTooLong"])
    ELSE IF cd.protocol_version.major # 4 THEN Panic
    ELSE MapErr(CommandFromStr(line))

FramedNew == [buffer |-> <<>>, is_readable |-> FALSE, has_errored |-> FALSE, eof |-> FALSE]

\* what FramedRead::poll_next returns and keeps once the decoder has
\* returned r for the line numbered n at the head of the buffer
Framed(f, sk, n, r) ==
    [ready |-> TRUE, panic |-> IsPanic(r), sock |-> sk,
     item |-> IF IsPanic(r) THEN None ELSE Some([r |-> r, n |-> n]),
     framed |-> [f EXCEPT !.buffer = Tail(@), !.has_errored = IsErr(r)]]

\* the framing step of FramedRead::poll_next on a buffer that holds a line
DecodeHead(f, cd, sk) == Framed(f, sk, Head(f.buffer).n, Decode(cd, Head(f.buffer)))

\* FramedRead::poll_next (tokio-util): after an error of the decoder the next
\* call returns None and the stream goes on after it; bytes are read from the
\* socket only when the buffer holds no frame or the stream is not readable
FramedNext(f, cd, sk, closed) ==
    IF f.has_errored
    THEN [ready |-> TRUE, panic |-> FALSE, sock |-> sk, item |-> None,
          framed |-> [f EXCEPT !.has_errored = FALSE, !.is_readable = FALSE]]
    ELSE IF f.is_readable /\ f.buffer # <<>> THEN DecodeHead(f, cd, sk)
    ELSE IF sk # <<>>
         THEN DecodeHead([f EXCEPT !.buffer = @ \o sk, !.is_readable = TRUE, !.eof = FALSE], cd, <<>>)
    ELSE IF closed
         THEN IF f.buffer # <<>> /\ ~f.eof
              THEN DecodeHead([f EXCEPT !.is_readable = TRUE, !.eof = TRUE], cd, sk)
              ELSE [ready |-> TRUE, panic |-> FALSE, sock |-> sk, item |-> None,
                    framed |-> [f EXCEPT !.is_readable = FALSE, !.eof = TRUE]]
    ELSE [ready |-> FALSE, panic |-> FALSE, sock |-> sk, item |-> None, framed |-> f]

(***************************************************************************)
(* The dispatcher, slink-server/src/dispatch.rs, and the client handles.   *)
(***************************************************************************)
\* the ClientHandle spawn_client builds
NewClientHandle == [useragent_info |-> <<>>, selects |-> <<>>, negotiator |-> None]

\* whether the receiving side of a client's writer inbox still exists
InboxOpen(c) == actor[c] \in {"spawned", "running"} /\ wpc[c] = "run"

\* a send that finds room in every open inbox
CanSendUnbounded(c) == InboxOpen(c)

\* whether ClientHandle::send (try_send) succeeds
CanSend(c) == InboxOpen(c) /\ Len(inbox[c]) < WriterInboxCapacity

\* Dispatcher::dispatch_v4 up to its send: the handle afterwards, the reply
\* it sends (if any) and whether it panics; negotiated is what
\* negotiator.next(cmd) gives where the arm calls it
Dispatch(handle, cmd, negotiated) ==
    LET unexpected == [type |-> "Error", text |-> ErrorToString(NewError("UnexpectedCommand"))]
        plain(reply) == [handle |-> handle, reply |-> reply, panic |-> FALSE]
    IN  CASE cmd.type = "Station" ->
               IF IsSome(handle.negotiator) THEN plain(Some(unexpected))
               ELSE [handle |-> [handle EXCEPT !.negotiator =
                                    Some(StationNegotiatorNew(SelectNew(InventoryStreams(cmd.station_pattern))))],
                     reply |-> Some([type |-> "Ok"]), panic |-> FALSE]
          [] cmd.type = "Select" ->
               IF IsPanic(negotiated.result) THEN [handle |-> handle, reply |-> None, panic |-> TRUE]
               ELSE IF IsErr(negotiated.result)
               THEN [handle |-> IF IsSome(handle.negotiator)
                                THEN [handle EXCEPT !.negotiator = Some(negotiated.neg)] ELSE handle,
                     reply |-> Some([type |-> "Error", text |-> ErrorToString(negotiated.result.e)]),
                     panic |-> FALSE]
               ELSE [handle |-> [handle EXCEPT !.negotiator = Some(negotiated.neg)],
                     reply |-> Some([type |-> "Ok"]), panic |-> FALSE]
          [] cmd.type = "Data" ->
               IF IsErr(negotiated.result)
               THEN [handle |-> IF IsSome(handle.negotiator)
                                THEN [handle EXCEPT !.negotiator = Some(negotiated.neg)] ELSE handle,
                     reply |-> Some([type |-> "Error", text |-> ErrorToString(negotiated.result.e)]),
                     panic |-> FALSE]
               ELSE [handle |-> [handle EXCEPT !.selects = Append(@, negotiated.neg.select),
                                               !.negotiator = None],
                     reply |-> Some([type |-> "Ok"]), panic |-> FALSE]
          [] cmd.type \in {"End", "EndFetch"} -> [handle |-> handle, reply |-> None, panic |-> TRUE]
          [] cmd.type = "Hello" -> plain(Some([type |-> "Hello"]))
          [] cmd.type = "Info" ->
               IF cmd.item = "Id"
               THEN plain(Some([type |-> "Info",
                                info |-> [type |-> "Id",
                                          id |-> ToIdInfo(<<HIGHEST_SUPPORTED_PROTO_VERSION>>)]]))
               ELSE [handle |-> handle, reply |-> None, panic |-> TRUE]
          [] OTHER -> plain(None)

\* Dispatcher::dispatch_v4: without a negotiator SELECT and DATA are answered
\* with ProtocolErrorV4::unexpected_command()
DispatchV4(handle, cmd) ==
    Dispatch(handle, cmd,
             IF IsSome(handle.negotiator)
             THEN NegotiatorNext(handle.negotiator.v, cmd)
             ELSE [neg |-> None, result |-> Err(NewError("UnexpectedCommand"))])

\* the Command arm of main_loop up to the send: Bye disconnects, UserAgent
\* stores the pairs and replies Ok, everything else goes to the dispatcher
HandleCommand(handle, cmd) ==
    CASE cmd.type = "Bye" -> [handle |-> handle, reply |-> None, panic |-> FALSE, disconnect |-> TRUE]
      [] cmd.type = "UserAgent" ->
           [handle |-> [handle EXCEPT !.useragent_info = cmd.info],
            reply |-> Some([type |-> "Ok"]), panic |-> FALSE, disconnect |-> FALSE]
      [] OTHER ->
           DispatchV4(handle, cmd) @@ [disconnect |-> FALSE]

\* the ErrorInfo arm of main_loop up to the send
HandleErrorInfo(handle, err) ==
    [handle |-> handle,
     reply |-> Some([type |-> "Info",
                     info |-> [type |-> "Error",
                               id |-> ToIdInfo(<<HIGHEST_SUPPORTED_PROTO_VERSION>>),
                               error |-> [code |-> Code(err.code), message |-> err.message]]]),
     panic |-> FALSE, disconnect |-> FALSE]

(***************************************************************************)
(* The actors.                                                             *)
(***************************************************************************)
RECURSIVE SumLen(_, _)
SumLen(f, S) ==
    IF S = {} THEN 0
    ELSE LET c == CHOOSE x \in S : TRUE IN Len(f[c]) + SumLen(f, S \ {c})

\* the frame tcp_read holds is an SLPROTO command: its loop body ends with
\* `continue`, which leaves next_cmd as it is, so the body runs again on the
\* same frame without reaching an await; the task never yields to tcp_write
\* (try_join! polls both in the one task) nor to an abort
Spinning(c) ==
    /\ actor[c] = "running"
    /\ rpc[c] = "body"
    /\ IsSome(next_cmd[c])
    /\ IsOk(next_cmd[c].v.r)
    /\ next_cmd[c].v.r.v.type = "SlProto"

\* JoinHandle::abort on the drop of a ClientHandle
Aborted(c) == IF actor[c] = "running" /\ ~Spinning(c) THEN "aborted" ELSE actor[c]

\* the server after spawn_main_loop, before any connection
ServerInit ==
    /\ sent = [c \in ClientIds |-> <<>>]
    /\ sock = [c \in ClientIds |-> <<>>]
    /\ peer_closed = [c \in ClientIds |-> FALSE]
    /\ next_id = 0
    /\ actor = [c \in ClientIds |-> "none"]
    /\ framed = [c \in ClientIds |-> FramedNew]
    /\ codec = [c \in ClientIds |-> CodecNew]
    /\ next_cmd = [c \in ClientIds |-> None]
    /\ rpc = [c \in ClientIds |-> "next"]
    /\ internal = [c \in ClientIds |-> <<>>]
    /\ inbox = [c \in ClientIds |-> <<>>]
    /\ wpc = [c \in ClientIds |-> "run"]
    /\ out = [c \in ClientIds |-> <<>>]
    /\ main_inbox = <<>>
    /\ clients = [c \in ClientIds |-> None]
    /\ registered = [c \in ClientIds |-> FALSE]
    /\ main = "running"
    /\ forwarded = [c \in ClientIds |-> <<>>]
    /\ delivered = [c \in ClientIds |-> <<>>]
    /\ enqueued = [c \in ClientIds |-> <<>>]

Init ==
    /\ alphabet \in Alphabets
    /\ ServerInit
    /\ neg = StationNegotiatorNew(SelectNew(<<>>))
    /\ neg_result = None
    /\ neg_cmds = <<>>
    /\ SelIdle
    /\ DecIdle
    /\ V3Idle
    /\ LibIdle

\* accept_loop, spawn_client: a connection gets the next ClientId and an actor
Accept(c) ==
    /\ c = next_id
    /\ alphabet[c] # {}
    /\ next_id' = next_id + 1
    /\ actor' = [actor EXCEPT ![c] = "spawned"]
    /\ UNCHANGED <<alphabet, sent, sock, peer_closed, framed, codec, next_cmd, rpc, internal,
                   inbox, wpc, out, main_inbox, clients, registered, main, forwarded, delivered, enqueued,
                   aux_vars>>

\* a start_client that enters client_loop without forwarding its handle
StartClientUnannounced(c) ==
    /\ actor[c] = "spawned"
    /\ actor' = [actor EXCEPT ![c] = IF main = "running" THEN "running" ELSE "panicked"]
    /\ UNCHANGED <<alphabet, sent, sock, peer_closed, next_id, framed, codec, next_cmd, rpc,
                   internal, inbox, wpc, out, main_inbox, clients, registered, main, forwarded,
                   delivered, enqueued, aux_vars>>

\* start_client up to client_loop: NewClient goes to the main loop first;
\* ServerHandle::send panics when the main loop has shut down
StartClient(c) ==
    /\ actor[c] = "spawned"
    /\ IF main = "running"
       THEN /\ Len(main_inbox) < MainInboxCapacity
            /\ main_inbox' = Append(main_inbox, [type |-> "NewClient", id |-> c])
            /\ actor' = [actor EXCEPT ![c] = "running"]
       ELSE /\ actor' = [actor EXCEPT ![c] = "panicked"]
            /\ UNCHANGED main_inbox
    /\ UNCHANGED <<alphabet, sent, sock, peer_closed, next_id, framed, codec, next_cmd, rpc,
                   internal, inbox, wpc, out, clients, registered, main, forwarded, delivered, enqueued,
                   aux_vars>>

\* the peer writes a command line to its socket
ClientSend(c, line) ==
    /\ actor[c] \in {"spawned", "running"}
    /\ ~peer_closed[c]
    /\ line \in alphabet[c]
    /\ SumLen(sent, ClientIds) < MaxLines
    /\ LET numbered == [kw |-> line.kw, args |-> line.args, long |-> line.long,
                        n |-> Len(sent[c]) + 1]
       IN  /\ sent' = [sent EXCEPT ![c] = Append(@, numbered)]
           /\ sock' = [sock EXCEPT ![c] = Append(@, numbered)]
    /\ UNCHANGED <<alphabet, peer_closed, next_id, actor, framed, codec, next_cmd, rpc, internal,
                   inbox, wpc, out, main_inbox, clients, registered, main, forwarded, delivered, enqueued,
                   aux_vars>>

\* the peer shuts down its sending side
ClientClose(c) ==
    /\ actor[c] \in {"spawned", "running"}
    /\ ~peer_closed[c]
    /\ peer_closed' = [peer_closed EXCEPT ![c] = TRUE]
    /\ UNCHANGED <<alphabet, sent, sock, next_id, actor, framed, codec, next_cmd, rpc, internal,
                   inbox, wpc, out, main_inbox, clients, registered, main, forwarded, delivered, enqueued,
                   aux_vars>>

\* tcp_read: framed_read.next().await, at the head of the loop (rpc = "next")
\* and after a ParseError::ProtocolError, where the result is dropped
\* (rpc = "resume"); a panic of the decoder ends the whole actor task
ReaderNext(c) ==
    /\ actor[c] = "running"
    /\ rpc[c] \in {"next", "resume"}
    /\ \E nx \in {FramedNext(framed[c], codec[c], sock[c], peer_closed[c])} :
           /\ nx.ready
           /\ framed' = [framed EXCEPT ![c] = nx.framed]
           /\ sock' = [sock EXCEPT ![c] = nx.sock]
           /\ IF nx.panic
              THEN /\ actor' = [actor EXCEPT ![c] = "panicked"]
                   /\ UNCHANGED <<next_cmd, rpc>>
              ELSE /\ UNCHANGED actor
                   /\ IF rpc[c] = "resume"
                      THEN /\ rpc' = [rpc EXCEPT ![c] = "next"]
                           /\ UNCHANGED next_cmd
                      ELSE /\ next_cmd' = [next_cmd EXCEPT ![c] = nx.item]
                           /\ rpc' = [rpc EXCEPT ![c] = IF IsSome(nx.item) THEN "body" ELSE "done"]
    /\ UNCHANGED <<alphabet, sent, peer_closed, next_id, codec, internal, inbox, wpc, out,
                   main_inbox, clients, registered, main, forwarded, delivered, enqueued, aux_vars>>

\* the message tcp_read builds for CommandV4::Unknown
UnsupportedError(cmd) ==
    [NewError("UnsupportedCommand") EXCEPT
        !.message = <<Description("UnsupportedCommand"), ": '">> \o cmd.command_name \o <<"'">>]

\* what one pass of the loop body of tcp_read does with the frame it holds:
\*   codec     the codec afterwards
\*   to_writer the InternalMessage::ProtocolError it sends to tcp_write, if any
\*   to_server the message it sends to the main loop, if any
\*   rpc       where tcp_read goes on: "body" is the `continue` of the SLPROTO
\*             arm, which skips the assignment to next_cmd at the loop's end
\*   panic     the todo!() of send_generic_error
ReaderStep(c, cd, frame) ==
    LET r == frame.r
        quiet(cd2, pc) == [codec |-> cd2, to_writer |-> None, to_server |-> None,
                           rpc |-> pc, panic |-> FALSE]
        write(cd2, err, pc) == [codec |-> cd2, to_writer |-> Some([err |-> err, n |-> frame.n]),
                                to_server |-> None, rpc |-> pc, panic |-> FALSE]
        serve(cd2, msg, pc) == [codec |-> cd2, to_writer |-> None, to_server |-> Some(msg),
                                rpc |-> pc, panic |-> FALSE]
    IN  IF IsOk(r)
        THEN LET cmd == r.v
             IN  IF cmd.type = "SlProto"
                 THEN LET t == TrySetProtocolVersion(cd, [major |-> cmd.major, minor |-> cmd.minor])
                      IN  IF IsErr(t.result) THEN write(t.codec, t.result.e, "body")
                          ELSE quiet(t.codec, "body")
                 ELSE LET cd2 == IF cmd.type = "Hello" THEN cd ELSE LockProtocolVersion(cd)
                      IN  IF cmd.type = "Unknown"
                          THEN write(cd2, UnsupportedError(cmd), "next")
                          ELSE serve(cd2, [type |-> "Command", id |-> c, cmd |-> cmd, n |-> frame.n],
                                     "next")
        ELSE IF r.e.kind = "IoError" THEN quiet(cd, "done")
        ELSE IF r.e.kind = "CommandLineTooLong"
             THEN IF cd.protocol_version.major = 4
                  THEN write(cd, NewError("Generic"), "done")
                  ELSE [codec |-> cd, to_writer |-> None, to_server |-> None, rpc |-> "done",
                        panic |-> TRUE]
        ELSE IF r.e.err.info
             THEN serve(cd, [type |-> "ErrorInfo", id |-> c, err |-> r.e.err, n |-> frame.n],
                        "resume")
             ELSE write(cd, r.e.err, "resume")

\* tcp_read: one pass of the loop body, from the frame in next_cmd to the
\* next await.  The send to the main loop waits for room in its inbox and
\* panics when the main loop has shut down.
ReaderBody(c) ==
    /\ actor[c] = "running"
    /\ rpc[c] = "body"
    /\ \E st \in {ReaderStep(c, codec[c], next_cmd[c].v)} :
       \E dead \in {st.panic \/ (IsSome(st.to_server) /\ main # "running")} :
           /\ IsSome(st.to_server) /\ main = "running" => Len(main_inbox) < MainInboxCapacity
           /\ st.rpc = "body" /\ IsSome(st.to_writer) => Len(internal[c]) < MaxInternal
           /\ actor' = [actor EXCEPT ![c] = IF dead THEN "panicked" ELSE @]
           /\ codec' = [codec EXCEPT ![c] = st.codec]
           /\ rpc' = [rpc EXCEPT ![c] = IF dead THEN @ ELSE st.rpc]
           /\ internal' = [internal EXCEPT ![c] =
                              IF IsSome(st.to_writer) /\ ~dead THEN Append(@, st.to_writer.v) ELSE @]
           /\ IF IsSome(st.to_server) /\ ~dead
              THEN /\ main_inbox' = Append(main_inbox, st.to_server.v)
                   /\ forwarded' = [forwarded EXCEPT ![c] = Append(@, st.to_server.v.n)]
              ELSE UNCHANGED <<main_inbox, forwarded>>
    /\ UNCHANGED <<alphabet, sent, sock, peer_closed, next_id, framed, next_cmd, inbox, wpc, out,
                   clients, registered, main, delivered, enqueued, aux_vars>>

\* whether tcp_write is polled: the client task runs and tcp_read yields
WriterRuns(c) == actor[c] = "running" /\ wpc[c] = "run" /\ ~Spinning(c)

\* a receiver that takes the newest message of a channel
Newest(queue) == Len(queue)

\* which message of a channel a receiver takes: the oldest
Oldest(queue) == 1

\* a queue without its element at position i
Without(queue, i) == SubSeq(queue, 1, i - 1) \o SubSeq(queue, i + 1, Len(queue))

\* tcp_write: the arm of select! for the writer inbox
WriterInbox(c) ==
    /\ WriterRuns(c)
    /\ inbox[c] # <<>>
    /\ LET i == Oldest(inbox[c])
       IN  /\ out' = [out EXCEPT ![c] = @ \o EncodeFromServer(inbox[c][i])]
           /\ inbox' = [inbox EXCEPT ![c] = Without(@, i)]
    /\ UNCHANGED <<alphabet, sent, sock, peer_closed, next_id, actor, framed, codec, next_cmd, rpc,
                   internal, wpc, main_inbox, clients, registered, main, forwarded, delivered, enqueued,
                   aux_vars>>

\* tcp_write: the arm of select! for the messages of tcp_read
WriterInternal(c) ==
    /\ WriterRuns(c)
    /\ internal[c] # <<>>
    /\ LET i == Oldest(internal[c])
       IN  /\ out' = [out EXCEPT ![c] = @ \o EncodeInternal(internal[c][i])]
           /\ internal' = [internal EXCEPT ![c] = Without(@, i)]
    /\ UNCHANGED <<alphabet, sent, sock, peer_closed, next_id, actor, framed, codec, next_cmd, rpc,
                   inbox, wpc, main_inbox, clients, registered, main, forwarded, delivered, enqueued,
                   aux_vars>>

\* tcp_write leaving its loop as soon as tcp_read has returned, whatever is unread
WriterBreakEarly(c) ==
    /\ WriterRuns(c)
    /\ rpc[c] = "done"
    /\ wpc' = [wpc EXCEPT ![c] = "done"]
    /\ UNCHANGED <<alphabet, sent, sock, peer_closed, next_id, actor, framed, codec, next_cmd, rpc,
                   internal, inbox, out, main_inbox, clients, registered, main, forwarded, delivered, enqueued,
                   aux_vars>>

\* tcp_write: from_tcp_read.recv() yields None once tcp_read has returned and
\* its messages are taken; the loop breaks, whatever the inbox still holds
WriterBreak(c) ==
    /\ WriterRuns(c)
    /\ rpc[c] = "done"
    /\ internal[c] = <<>>
    /\ wpc' = [wpc EXCEPT ![c] = "done"]
    /\ UNCHANGED <<alphabet, sent, sock, peer_closed, next_id, actor, framed, codec, next_cmd, rpc,
                   internal, inbox, out, main_inbox, clients, registered, main, forwarded, delivered, enqueued,
                   aux_vars>>

\* start_client after client_loop: DisconnectClient goes to the main loop
ClientLoopEnd(c) ==
    /\ actor[c] = "running"
    /\ rpc[c] = "done"
    /\ wpc[c] = "done"
    /\ IF main = "running"
       THEN /\ Len(main_inbox) < MainInboxCapacity
            /\ main_inbox' = Append(main_inbox, [type |-> "DisconnectClient", id |-> c])
            /\ actor' = [actor EXCEPT ![c] = "finished"]
       ELSE /\ actor' = [actor EXCEPT ![c] = "panicked"]
            /\ UNCHANGED main_inbox
    /\ UNCHANGED <<alphabet, sent, sock, peer_closed, next_id, framed, codec, next_cmd, rpc,
                   internal, inbox, wpc, out, clients, registered, main, forwarded, delivered, enqueued,
                   aux_vars>>

\* what main_loop does with one message for a registered client, up to the
\* send of the reply
Handle(handle, msg) ==
    IF msg.type = "Command" THEN HandleCommand(handle, msg.cmd) ELSE HandleErrorInfo(handle, msg.err)

\* whether main_loop removes the client after handling a message: on Bye,
\* and when the reply cannot be put into the client's inbox at once
Disconnects(c, h) == h.disconnect \/ (IsSome(h.reply) /\ ~CanSend(c))

\* main_loop: one message of the inbox
MainLoop ==
    /\ main = "running"
    /\ main_inbox # <<>>
    /\ LET msg == main_inbox[Oldest(main_inbox)]
           c == msg.id
       IN  /\ main_inbox' = Without(main_inbox, Oldest(main_inbox))
           /\ registered' = [registered EXCEPT ![c] = IF msg.type = "NewClient" THEN TRUE ELSE @]
           /\ CASE msg.type = "NewClient" ->
                     /\ clients' = [clients EXCEPT ![c] = Some(NewClientHandle)]
                     /\ UNCHANGED <<actor, inbox, main, delivered, enqueued>>
                [] msg.type = "DisconnectClient" ->
                     /\ clients' = [clients EXCEPT ![c] = None]
                     /\ actor' = [actor EXCEPT ![c] = IF IsSome(clients[c]) THEN Aborted(c) ELSE @]
                     /\ UNCHANGED <<inbox, main, delivered, enqueued>>
                [] OTHER ->
                     /\ delivered' = [delivered EXCEPT ![c] = Append(@, msg.n)]
                     /\ IF ~IsSome(clients[c])
                        THEN UNCHANGED <<clients, actor, inbox, main, enqueued>>
                        ELSE \E h \in {Handle(clients[c].v, msg)} :
                                 IF h.panic
                                 THEN /\ main' = "panicked"
                                      /\ clients' = [d \in ClientIds |-> None]
                                      /\ actor' = [d \in ClientIds |->
                                                     IF IsSome(clients[d]) THEN Aborted(d) ELSE actor[d]]
                                      /\ UNCHANGED <<inbox, enqueued>>
                                 ELSE IF Disconnects(c, h)
                                 THEN /\ clients' = [clients EXCEPT ![c] = None]
                                      /\ actor' = [actor EXCEPT ![c] = Aborted(c)]
                                      /\ UNCHANGED <<inbox, main, enqueued>>
                                 ELSE /\ clients' = [clients EXCEPT ![c] = Some(h.handle)]
                                      /\ IF IsSome(h.reply)
                                         THEN LET reply == [h.reply.v EXCEPT !.type = @] @@ [n |-> msg.n]
                                              IN  /\ inbox' = [inbox EXCEPT ![c] = Append(@, reply)]
                                                  /\ enqueued' = [enqueued EXCEPT ![c] = Append(@, reply)]
                                         ELSE UNCHANGED <<inbox, enqueued>>
                                      /\ UNCHANGED <<actor, main>>
    /\ UNCHANGED <<alphabet, sent, sock, peer_closed, next_id, framed, codec, next_cmd, rpc,
                   internal, wpc, out, forwarded, aux_vars>>

Next ==
    \/ \E c \in ClientIds : Accept(c)
    \/ \E c \in ClientIds : StartClient(c)
    \/ \E c \in ClientIds : \E line \in alphabet[c] : ClientSend(c, line)
    \/ \E c \in ClientIds : ClientClose(c)
    \/ \E c \in ClientIds : ReaderNext(c)
    \/ \E c \in ClientIds : ReaderBody(c)
    \/ \E c \in ClientIds : WriterInbox(c)
    \/ \E c \in ClientIds : WriterInternal(c)
    \/ \E c \in ClientIds : WriterBreak(c)
    \/ \E c \in ClientIds : ClientLoopEnd(c)
    \/ MainLoop

Spec == Init /\ [][Next]_vars

(***************************************************************************)
(* A StationNegotiator on its own, fed parsed commands.                    *)
(***************************************************************************)
LineBye == Line(<<"B","Y","E">>, <<>>)
LineEnd == Line(<<"E","N","D">>, <<>>)
LineSelectTwo == Line(<<"S","E","L","E","C","T">>, << <<"*","_","Z">>, <<"!","0","0","_","*">> >>)
LineSelectOther == Line(<<"S","E","L","E","C","T">>, << <<"Q","*">> >>)

\* the commands fed to the negotiator: what Command::from_str returns for
\* these lines
NegCommands ==
    { CommandFromStr(line).v :
        line \in {LineSelect, LineSelectTwo, LineSelectOther, LineDataAll, LineHello, LineStation, LineInfoId,
                  LineUserAgent, LineBye, LineEnd, LineSlProto40} }

\* the selects a negotiator is created with: Select::new of what
\* inventory_streams returns for a station pattern
NegSelects ==
    { SelectNew(InventoryStreams(pattern)) :
        pattern \in {<<"X","X","_","Y","Y">>, <<"Z","Z","_","*">>} }

NegInit ==
    /\ alphabet = [c \in ClientIds |-> {}]
    /\ ServerInit
    /\ neg \in {StationNegotiatorNew(select) : select \in NegSelects}
    /\ neg_result = None
    /\ neg_cmds = <<>>
    /\ SelIdle
    /\ DecIdle
    /\ V3Idle
    /\ LibIdle

\* negotiator.next(cmd)
NegNext ==
    /\ Len(neg_cmds) < MaxNegSteps
    /\ \E cmd \in NegCommands :
          LET r == NegotiatorNext(neg, cmd)
          IN  /\ neg' = r.neg
              /\ neg_result' = Some(r.result)
              /\ neg_cmds' = Append(neg_cmds, cmd)
    /\ UNCHANGED <<server_vars, sel_vars, dec_vars, v3_vars, lib_vars>>

NegSpec == NegInit /\ [][NegNext]_vars

(***************************************************************************)
(* A Select on its own, slink-server/src/select.rs, under sequences of     *)
(* calls of its methods.                                                   *)
(***************************************************************************)
\* a station the inventory holds without streams
StationNoStreams ==
    [id |-> <<"X","X","_","N","S">>, start_seq |-> 1, end_seq |-> 3, streams |-> <<>>]

StationTwoStreams ==
    [id |-> <<"X","X","_","T","S">>, start_seq |-> 2, end_seq |-> 3,
     streams |-> << [id |-> <<"0","0","_","B","_","H","_","Z">>, format |-> "2", subformat |-> "D"],
                    [id |-> <<"0","0","_","B","_","H","_","N">>, format |-> "2", subformat |-> "D"] >>]

\* the station lists Select::new is called with
SelInventories == { <<StationXXYY, StationNoStreams>>, <<StationTwoStreams>> }

\* the arguments of Select::apply: the patterns SelectPattern::from_str
\* returns for the words of SELECT commands
SelPatterns ==
    { SelectPatternFromStr(word).v :
        word \in { <<"*","_","Z">>, <<"!","*","_","Z">>, <<"*",":","f">>, <<"!","*">>,
                   <<"Q","*">> } }

\* the arguments of Select::set_seq_num
SelSeqNums == {SeqAll, SeqNext, SeqNumber(1), SeqNumber(2), SeqNumber(3)}

\* whether the patterns of an apply match a stream select
Matches(pattern, stream_select) ==
    /\ IsMatch(CreateRegex(pattern.stream_pattern), stream_select.id)
    /\ IsSome(pattern.format_subformat_pattern) =>
           IsMatch(CreateRegex(pattern.format_subformat_pattern.v),
                   <<stream_select.format, stream_select.subformat>>)

\* the streams <<i, j>> of a Select
Streams(select) == { <<i, j>> \in (DOMAIN select) \X (1..2) : j \in DOMAIN select[i].streams }

SelInit ==
    /\ alphabet = [c \in ClientIds |-> {}]
    /\ ServerInit
    /\ neg = StationNegotiatorNew(SelectNew(<<>>))
    /\ neg_result = None
    /\ neg_cmds = <<>>
    /\ sel \in {SelectNew(stations) : stations \in SelInventories}
    /\ sel_prev = sel
    /\ sel_op = [op |-> "new"]
    /\ sel_steps = 0
    /\ sel_excluded = {}
    /\ DecIdle
    /\ V3Idle
    /\ LibIdle

\* what every call on the Select records
SelCall(op, excluded) ==
    /\ sel_steps < MaxSelSteps
    /\ sel_prev' = sel
    /\ sel_op' = op
    /\ sel_steps' = sel_steps + 1
    /\ sel_excluded' = excluded
    /\ UNCHANGED <<server_vars, neg_vars, dec_vars, v3_vars, lib_vars>>

\* select.apply(exclude, stream_pattern, format_subformat_pattern, filter)
SelApply(pattern) ==
    /\ \E r \in {Apply(sel, pattern.exclude, pattern.stream_pattern,
                        pattern.format_subformat_pattern, pattern.filter)} :
          /\ IsOk(r)
          /\ sel' = r.v
    /\ SelCall([op |-> "apply", pattern |-> pattern],
               IF pattern.exclude
               THEN sel_excluded \cup {s \in Streams(sel) : Matches(pattern, sel[s[1]].streams[s[2]])}
               ELSE sel_excluded)

\* select.set_seq_num(seq_num)
SelSetSeqNum(seq_num) ==
    /\ sel' = SetSeqNum(sel, seq_num)
    /\ SelCall([op |-> "set_seq_num", seq_num |-> seq_num], sel_excluded)

\* select.select_all()
SelSelectAll ==
    /\ sel' = SelectAll(sel)
    /\ SelCall([op |-> "select_all"], sel_excluded)

\* select.select_none()
SelSelectNone ==
    /\ sel' = SelectNone(sel)
    /\ SelCall([op |-> "select_none"], sel_excluded)

SelNext ==
    \/ \E pattern \in SelPatterns : SelApply(pattern)
    \/ \E seq_num \in SelSeqNums : SelSetSeqNum(seq_num)
    \/ SelSelectAll
    \/ SelSelectNone

SelSpec == SelInit /\ [][SelNext]_vars

(***************************************************************************)
(* The SeedLinkCodec on its own, slink-server/src/seedlink.rs, decoding    *)
(* bytes: decode is called on the buffer until it returns Ok(None), and    *)
(* bytes are appended to the buffer in chunks.                             *)
(***************************************************************************)
MAX_COMMAND_LINE_LENGTH == 255

CR == "\r"
LF == "\n"
IsNewline(b) == b = LF \/ b = CR

Min(a, b) == IF a < b THEN a ELSE b
Max(S) == CHOOSE a \in S : \A b \in S : b <= a

\* SeedLinkCodec::new, the fields decode uses
DecoderNew == [next_index |-> 0, is_discarding |-> FALSE, protocol_version |-> DEFAULT_PROTO_VERSION]

\* BytesMut::advance
Advance(buf, cnt) == SubSeq(buf, cnt + 1, Len(buf))

\* a line kept with its carriage return
WithCarriageReturn(s) == s

\* without_carriage_return
WithoutCarriageReturn(s) ==
    IF s # <<>> /\ s[Len(s)] = CR THEN SubSeq(s, 1, Len(s) - 1) ELSE s

\* s.splitn(2, [' ', '\t']) of Command::from_str: the keyword, and the words
\* of what follows the first white space
LineOfBytes(s) ==
    IF \A i \in DOMAIN s : s[i] \notin {" ", "\t"}
    THEN Line(s, <<>>)
    ELSE LET sp == CHOOSE k \in DOMAIN s :
                       s[k] \in {" ", "\t"} /\ \A j \in 1..(k - 1) : s[j] \notin {" ", "\t"}
         IN  Line(SubSeq(s, 1, sp - 1), Split(SubSeq(s, sp + 1, Len(s)), " "))

\* Command::parse (the bytes are ASCII, String::from_utf8 succeeds)
CommandParse(s) == CommandFromStr(LineOfBytes(s))

\* what decode returns: Ok(None), Ok(Some(cmd)) or Err(e) as an item, or a panic
Returns(cd, buf, result) == [codec |-> cd, buf |-> buf, result |-> result]
NoFrame == [kind |-> "None"]
Item(r) == [kind |-> "Item", r |-> r]
Panics == [kind |-> "Panic"]

\* the position (from 1) of the first line ending of buf[from..to], 0 without one
FirstNewline(buf, from, to) ==
    IF \E k \in from..to : IsNewline(buf[k])
    THEN CHOOSE k \in from..to : IsNewline(buf[k]) /\ \A j \in from..(k - 1) : ~IsNewline(buf[j])
    ELSE 0

\* the arm (false, Some(offset)) of decode once the line is cut off
DecodeCut(cd, rest, line) ==
    IF line = <<>> THEN Returns(cd, rest, NoFrame)
    ELSE IF cd.protocol_version.major # 4 THEN Returns(cd, rest, Panics)
    ELSE IF IsPanic(CommandParse(line)) THEN Returns(cd, rest, Panics)
    ELSE Returns(cd, rest, Item(MapErr(CommandParse(line))))

\* the arm (false, Some(offset)) of decode; hit is newline_index + 1, and last
\* is the same after the step over the <LF> of a <CR><LF>
DecodeLine(cd, buf, hit) ==
    LET last == IF buf[hit] = CR /\ hit < Len(buf) /\ buf[hit + 1] = LF THEN hit + 1 ELSE hit
    IN  DecodeCut([cd EXCEPT !.next_index = 0], Advance(buf, last),
                  WithoutCarriageReturn(SubSeq(buf, 1, last - 1)))

RECURSIVE DecodeBytes(_, _)
\* the match of decode on (is_discarding, newline_offset); hit is the position
\* of the line ending found in buf[next_index..read_to], 0 without one
DecodeMatch(cd, buf, read_to, hit) ==
    CASE cd.is_discarding /\ hit # 0 ->
             DecodeBytes([cd EXCEPT !.is_discarding = FALSE, !.next_index = 0], Advance(buf, hit))
      [] cd.is_discarding /\ hit = 0 ->
             IF read_to = Len(buf)
             THEN Returns([cd EXCEPT !.next_index = 0], <<>>, NoFrame)
             ELSE DecodeBytes([cd EXCEPT !.next_index = 0], Advance(buf, read_to))
      [] ~cd.is_discarding /\ hit # 0 -> DecodeLine(cd, buf, hit)
      [] ~cd.is_discarding /\ hit = 0 /\ Len(buf) > MAX_COMMAND_LINE_LENGTH ->
             Returns([cd EXCEPT !.is_discarding = TRUE], buf, Item(Err([kind |-> "CommandLineTooLong"])))
      [] OTHER -> Returns([cd EXCEPT !.next_index = read_to], buf, NoFrame)

\* SeedLinkCodec::decode; the slice buf[next_index..read_to] panics when
\* next_index is beyond read_to
DecodeBytes(cd, buf) ==
    IF cd.next_index > Min(MAX_COMMAND_LINE_LENGTH, Len(buf))
    THEN Returns(cd, buf, Panics)
    ELSE DecodeMatch(cd, buf, Min(MAX_COMMAND_LINE_LENGTH, Len(buf)),
                     FirstNewline(buf, cd.next_index + 1, Min(MAX_COMMAND_LINE_LENGTH, Len(buf))))

\* a text of n bytes without white space or line ending
Long(n) == [i \in 1..n |-> "x"]

\* the bytes of a command line
BytesOf(line) ==
    IF line.args = <<>> THEN line.kw
    ELSE line.kw \o Concat([i \in DOMAIN line.args |-> <<" ">> \o line.args[i]])

\* the command texts fed to the codec, with those just under, at and over
\* the length limit
DecCommands ==
    { BytesOf(LineHello), BytesOf(LineStation), BytesOf(LineFoo), BytesOf(LineInfo),
      Long(MAX_COMMAND_LINE_LENGTH - 2), Long(MAX_COMMAND_LINE_LENGTH - 1),
      Long(MAX_COMMAND_LINE_LENGTH) }

DecTerminators == { <<CR>>, <<LF>>, <<CR, LF>> }

\* the runs: a command and its terminator, or that after a blob without line
\* ending and its <CR><LF>
DecCases ==
    { [kind |-> "line", c |-> c, t |-> t] : c \in DecCommands, t \in DecTerminators }
    \cup { [kind |-> "blob", c |-> BytesOf(LineHello), t |-> <<CR, LF>>] }

DecBytes(case) ==
    IF case.kind = "blob" THEN Long(BlobLen) \o <<CR, LF>> \o case.c \o case.t
    ELSE case.c \o case.t

\* the numbers of bytes one read appends to the buffer (at most what is left)
DecChunks == {1, 2, 3, MAX_COMMAND_LINE_LENGTH - 1, MAX_COMMAND_LINE_LENGTH,
              MAX_COMMAND_LINE_LENGTH + 1, BlobLen + MAX_COMMAND_LINE_LENGTH}

DecInit ==
    /\ alphabet = [c \in ClientIds |-> {}]
    /\ ServerInit
    /\ neg = StationNegotiatorNew(SelectNew(<<>>))
    /\ neg_result = None
    /\ neg_cmds = <<>>
    /\ SelIdle
    /\ V3Idle
    /\ LibIdle
    /\ dec = DecoderNew
    /\ dec_buf = <<>>
    /\ dec_out = <<>>
    /\ dec_idle = TRUE
    /\ dec_feeds = 0
    /\ dec_case \in DecCases
    /\ dec_input = DecBytes(dec_case)

\* the codec has panicked
DecDead == dec_out # <<>> /\ dec_out[Len(dec_out)].kind = "Panic"

\* bytes arrive in the buffer: cnt of them, or what is left; after MaxFeeds
\* arrivals the rest arrives at once
DecFeed(cnt) ==
    /\ dec_input # <<>>
    /\ ~DecDead
    /\ cnt = Max(DecChunks) \/ (cnt <= Len(dec_input) /\ dec_feeds < MaxFeeds)
    /\ dec_feeds' = dec_feeds + 1
    /\ dec_buf' = dec_buf \o SubSeq(dec_input, 1, Min(cnt, Len(dec_input)))
    /\ dec_input' = Advance(dec_input, Min(cnt, Len(dec_input)))
    /\ dec_idle' = FALSE
    /\ UNCHANGED <<server_vars, neg_vars, sel_vars, v3_vars, lib_vars, dec, dec_out, dec_case>>

\* codec.decode(&mut buf)
DecDecode ==
    /\ ~dec_idle
    /\ ~DecDead
    /\ \E r \in {DecodeBytes(dec, dec_buf)} :
          /\ dec' = r.codec
          /\ dec_buf' = r.buf
          /\ dec_idle' = (r.result.kind = "None")
          /\ dec_out' = IF r.result.kind = "None" THEN dec_out ELSE Append(dec_out, r.result)
    /\ UNCHANGED <<server_vars, neg_vars, sel_vars, v3_vars, lib_vars, dec_input, dec_feeds, dec_case>>

DecNext ==
    \/ \E cnt \in DecChunks : DecFeed(cnt)
    \/ DecDecode

DecSpec == DecInit /\ [][DecNext]_vars

(***************************************************************************)
(* The v3 client connection (src/v3/connection): FramedConnectionV3 with   *)
(* its Negotiator and the session phase of its SeedLinkCodec.  An          *)
(* operation is one action: the commands it writes, the frames it reads    *)
(* from the replies of the peer, the fields it assigns, the value it       *)
(* returns.  The peer's replies during an operation are chosen by the      *)
(* action; replies the operation does not read stay queued for the next.   *)
(***************************************************************************)

\* FramedConnectionState, in the derived order of its variants
FramedConnectionState == <<"Initialized", "HandShaking", "DataTransfer", "Closed">>

\* the position of a state in that order: what `>=` on the enum compares
StateRank(state) == CHOOSE i \in DOMAIN FramedConnectionState : FramedConnectionState[i] = state

\* SeedLinkResult values: Ok, the SeedLinkError variants, and an operation that never returns
Running == [tag |-> "Running"]
V3Ok == [tag |-> "Ok"]
V3Pending == [tag |-> "Pending"]
V3ClientError(msg) == [tag |-> "ClientError", msg |-> msg]
V3UnsupportedCommand(msg) == [tag |-> "UnsupportedCommand", msg |-> msg]
V3IoError(kind) == [tag |-> "Io", kind |-> kind]

\* FramedConnectionV3::new, SeedLinkCodec::new and FramedTcpConnection after connect
FramedConnectionV3New ==
    [state |-> "Initialized", phase |-> "HandShaking", open |-> TRUE, batch_cmd_mode |-> FALSE,
     expect_info_resp |-> FALSE, replies |-> <<>>]

\* an operation starting on connection c: nothing written, nothing written or read (io),
\* nothing returned, and configure's local accepted_sta_cnt at 0
V3Begin(c) ==
    [state |-> c.state, phase |-> c.phase, open |-> c.open, batch_cmd_mode |-> c.batch_cmd_mode,
     expect_info_resp |-> c.expect_info_resp, replies |-> c.replies, wrote |-> <<>>, ret |-> Running,
     accepted_sta_cnt |-> 0, io |-> <<>>]

\* the connection an operation leaves behind
V3Conn(k) ==
    [state |-> k.state, phase |-> k.phase, open |-> k.open, batch_cmd_mode |-> k.batch_cmd_mode,
     expect_info_resp |-> k.expect_info_resp, replies |-> k.replies]

Returned(k) == k.ret # Running
Return(k, r) == [k EXCEPT !.ret = r]

\* what the peer sends in the runs: the lines OK, ERROR and another line, an INFO packet
\* that is the last of its response, one whose record is the ERR channel, and the end of
\* the stream (an INFO packet that is not the last, INFO_MORE, is sent to the packet
\* stream only)
V3Replies == {"OK", "ERROR", "LINE", "INFO_LAST", "INFO_ERR", "EOF"}

\* SeedLinkCodec::decode on one reply: in the handshaking phase lines and INFO packets are
\* framed; in the data transfer phase only packets are, and the bytes of a line
\* stay in the buffer without ever making a frame
V3Decode(phase, reply) ==
    IF reply \in {"INFO_LAST", "INFO_MORE", "INFO_ERR"} THEN reply
    ELSE IF reply = "END" THEN "End"
    ELSE IF reply = "DATA" THEN (IF phase = "DataTransfer" THEN "GenericDataPacket" ELSE "Nothing")
    ELSE IF phase = "HandShaking"
    THEN CASE reply = "OK" -> "Ok"
           [] reply = "ERROR" -> "Error"
           [] OTHER -> "Line"
    ELSE "Nothing"

\* SeedLinkCodec::enable_data_transfer_phase
EnableDataTransferPhase(k) == [k EXCEPT !.phase = "DataTransfer"]

\* ActualFramedConnection::shutdown: the write half is shut down, open is cleared
ConShutdown(k) == [k EXCEPT !.open = FALSE]

\* FramedConnectionV3::write_frame: writes and flushes the line; on a write half that was
\* shut down the write fails
WriteFrame(k, cmd) ==
    IF k.open THEN [k EXCEPT !.wrote = Append(@, cmd), !.io = Append(@, [w |-> cmd])]
    ELSE Return(k, V3IoError("BrokenPipe"))

\* FramedConnectionV3::read_frame: the next frame; Err(BrokenPipe) at the end of the
\* stream; never returns while no frame can be made
ReadFrame(k) ==
    IF k.replies = <<>> THEN [k |-> Return(k, V3Pending), frame |-> "Nothing"]
    ELSE IF Head(k.replies) = "EOF" THEN [k |-> Return(k, V3IoError("BrokenPipe")), frame |-> "Nothing"]
    ELSE IF V3Decode(k.phase, Head(k.replies)) = "Nothing"
    THEN [k |-> Return(k, V3Pending), frame |-> "Nothing"]
    ELSE [k |-> [k EXCEPT !.replies = Tail(@),
                          !.io = Append(@, [r |-> V3Decode(k.phase, Head(k.replies))])],
          frame |-> V3Decode(k.phase, Head(k.replies))]

\* FramedConnectionV3::read_line_frame
ReadLineFrame(k) ==
    IF Returned(ReadFrame(k).k) THEN ReadFrame(k).k
    ELSE IF ReadFrame(k).frame = "Line" THEN ReadFrame(k).k
    ELSE Return(ReadFrame(k).k, V3IoError("InvalidData"))

\* FramedConnectionV3::say_hello
SayHelloRead(k) ==
    IF Returned(k) THEN k
    ELSE IF Returned(ReadLineFrame(k)) THEN ReadLineFrame(k)
    ELSE IF Returned(ReadLineFrame(ReadLineFrame(k))) THEN ReadLineFrame(ReadLineFrame(k))
    ELSE Return(ReadLineFrame(ReadLineFrame(k)), V3Ok)

SayHello(k) ==
    IF StateRank(k.state) >= StateRank("HandShaking")
    THEN Return(k, V3ClientError("invalid connection state"))
    ELSE SayHelloRead(WriteFrame(k, "HELLO"))

\* FramedConnectionV3::say_bye
SayBye(k) == WriteFrame(k, "BYE")

\* FramedConnectionV3::shutdown
Shutdown(k) ==
    IF Returned(SayBye(k)) THEN SayBye(k)
    ELSE Return([ConShutdown(SayBye(k)) EXCEPT !.state = "Closed"], V3Ok)

\* FramedConnectionV3::try_send_info without its check of expect_info_resp
TrySendInfoUnchecked(k) == WriteFrame(k, "INFO")

\* FramedConnectionV3::try_send_info; the value returned is Ok while k.ret is Running
TrySendInfo(k) ==
    IF k.expect_info_resp
    THEN Return(k, V3ClientError("multiple concurrent info requests are not allowed"))
    ELSE WriteFrame(k, "INFO")

\* the loop of FramedConnectionV3::request_info
RECURSIVE RequestInfoLoop(_)
RequestInfoMatch(k, frame) ==
    IF Returned(k) THEN k
    ELSE IF frame = "INFO_ERR"
    THEN Return(k, V3UnsupportedCommand("INFO level request is not supported."))
    ELSE IF frame = "INFO_LAST" THEN Return([k EXCEPT !.expect_info_resp = FALSE], V3Ok)
    ELSE RequestInfoLoop(k)

RequestInfoLoop(k) == RequestInfoMatch(ReadFrame(k).k, ReadFrame(k).frame)

\* FramedConnectionV3::request_info
RequestInfoSent(k) ==
    IF Returned(k) THEN k ELSE RequestInfoLoop([k EXCEPT !.expect_info_resp = TRUE])

RequestInfo(k) == RequestInfoSent(TrySendInfo(k))

\* FramedConnectionV3::try_send_keep_alive: a ClientError of try_send_info is ignored
KeepAliveSent(k) ==
    IF k.ret = Running \/ k.ret.tag = "ClientError"
    THEN Return([k EXCEPT !.expect_info_resp = TRUE], V3Ok)
    ELSE [k EXCEPT !.expect_info_resp = TRUE]

TrySendKeepAlive(k) == KeepAliveSent(TrySendInfo(k))

\* FramedConnectionV3::ack_keep_alive
AckKeepAlive(k) == Return([k EXCEPT !.expect_info_resp = FALSE], V3Ok)

\* a command's answer: Ok goes on, Error is on_error, anything else is invalid data
CommandAnswered(k, frame, on_error) ==
    IF Returned(k) THEN k
    ELSE IF frame = "Ok" THEN k
    ELSE IF frame = "Error" THEN on_error
    ELSE Return(k, V3IoError("InvalidData"))

\* Negotiator::negotiate_streams: one SELECT for each of the n selectors
RECURSIVE NegotiateStreams(_, _)
NegotiateStreamsRead(k, n) ==
    IF Returned(k) THEN k
    ELSE IF k.batch_cmd_mode THEN NegotiateStreams(k, n - 1)
    ELSE IF Returned(CommandAnswered(ReadFrame(k).k, ReadFrame(k).frame, ReadFrame(k).k))
    THEN CommandAnswered(ReadFrame(k).k, ReadFrame(k).frame, ReadFrame(k).k)
    ELSE NegotiateStreams(ReadFrame(k).k, n - 1)

NegotiateStreams(k, n) ==
    IF n = 0 THEN k ELSE NegotiateStreamsRead(WriteFrame(k, "SELECT"), n)

\* the action command of a data transfer mode
ActionCommand(data_transfer_mode) ==
    CASE data_transfer_mode = "RealTime" -> "DATA"
      [] data_transfer_mode = "DialUp" -> "FETCH"
      [] OTHER -> "TIME"

\* Negotiator::negotiate_data_transfer_mode
NegotiateDataTransferModeRead(k) ==
    IF Returned(k) THEN k
    ELSE IF k.batch_cmd_mode THEN k
    ELSE CommandAnswered(ReadFrame(k).k, ReadFrame(k).frame,
                  Return(ReadFrame(k).k, V3ClientError("response: action command not accepted")))

NegotiateDataTransferMode(k, stream_config, data_transfer_mode) ==
    IF Returned(k) THEN k
    ELSE IF data_transfer_mode \in {"RealTime", "DialUp"} /\ stream_config.seq_num = "bad"
    THEN Return(k, V3ClientError("invalid digit found in string"))
    ELSE NegotiateDataTransferModeRead(WriteFrame(k, ActionCommand(data_transfer_mode)))

\* Negotiator::negotiate: the connection afterwards and whether the station was accepted
NegotiateSelected(k, stream_config, data_transfer_mode) ==
    [k |-> NegotiateDataTransferMode(NegotiateStreams(k, stream_config.selectors),
                                     stream_config, data_transfer_mode),
     accepted |-> TRUE]

\* a negotiate that goes on with the station whatever the peer answered (not the code)
NegotiateReadAnyAnswer(k, frame, stream_config, data_transfer_mode) ==
    IF Returned(k) THEN [k |-> k, accepted |-> FALSE]
    ELSE NegotiateSelected(k, stream_config, data_transfer_mode)

NegotiateRead(k, frame, stream_config, data_transfer_mode) ==
    IF Returned(k) THEN [k |-> k, accepted |-> FALSE]
    ELSE IF frame = "Ok" THEN NegotiateSelected(k, stream_config, data_transfer_mode)
    ELSE IF frame = "Error" THEN [k |-> k, accepted |-> FALSE]
    ELSE [k |-> Return(k, V3IoError("InvalidData")), accepted |-> FALSE]

NegotiateWritten(k, stream_config, data_transfer_mode) ==
    IF Returned(k) THEN [k |-> k, accepted |-> FALSE]
    ELSE IF k.batch_cmd_mode THEN NegotiateSelected(k, stream_config, data_transfer_mode)
    ELSE NegotiateRead(ReadFrame(k).k, ReadFrame(k).frame, stream_config, data_transfer_mode)

Negotiate(k, stream_config, data_transfer_mode) ==
    NegotiateWritten(WriteFrame(k, "STATION"), stream_config, data_transfer_mode)

\* an end of configure that leaves the handshake open whatever was accepted (not the code)
ConfigureEndStateOnly(k, accepted_sta_cnt) ==
    Return([k EXCEPT !.state = "Initialized"], V3Ok)

\* the end of FramedConnectionV3::configure, after the loop over the stream configurations
ConfigureEnd(k, accepted_sta_cnt) ==
    IF accepted_sta_cnt = 0 THEN Return([k EXCEPT !.state = "Initialized"], V3Ok)
    ELSE IF Returned(WriteFrame(EnableDataTransferPhase([k EXCEPT !.state = "DataTransfer"]), "END"))
    THEN WriteFrame(EnableDataTransferPhase([k EXCEPT !.state = "DataTransfer"]), "END")
    ELSE Return(WriteFrame(EnableDataTransferPhase([k EXCEPT !.state = "DataTransfer"]), "END"), V3Ok)

\* the loop of FramedConnectionV3::configure over stream_configs, from index i
RECURSIVE ConfigureLoop(_, _, _, _, _)
ConfigureNegotiated(n, stream_configs, data_transfer_mode, i, accepted_sta_cnt) ==
    IF Returned(n.k) THEN n.k
    ELSE IF n.accepted
    THEN ConfigureLoop([n.k EXCEPT !.accepted_sta_cnt = accepted_sta_cnt + 1],
                       stream_configs, data_transfer_mode, i + 1, accepted_sta_cnt + 1)
    ELSE ConfigureLoop(n.k, stream_configs, data_transfer_mode, i + 1, accepted_sta_cnt)

ConfigureLoop(k, stream_configs, data_transfer_mode, i, accepted_sta_cnt) ==
    IF i > Len(stream_configs) THEN ConfigureEnd(k, accepted_sta_cnt)
    ELSE ConfigureNegotiated(Negotiate(k, stream_configs[i], data_transfer_mode),
                             stream_configs, data_transfer_mode, i, accepted_sta_cnt)

\* the BATCH command of FramedConnectionV3::configure
ConfigureBatchRead(k, frame) ==
    IF Returned(k) THEN k
    ELSE IF frame = "Ok" THEN [k EXCEPT !.batch_cmd_mode = TRUE]
    ELSE IF frame = "Error" THEN Return(k, V3UnsupportedCommand("failed to switch to batch mode"))
    ELSE Return(k, V3IoError("InvalidData"))

ConfigureBatchWritten(k) ==
    IF Returned(k) THEN k ELSE ConfigureBatchRead(ReadFrame(k).k, ReadFrame(k).frame)

ConfigureBatch(k, batch_cmd_mode) ==
    IF batch_cmd_mode THEN ConfigureBatchWritten(WriteFrame(k, "BATCH")) ELSE k

\* FramedConnectionV3::configure
ConfigureHandShaking(k, stream_configs, data_transfer_mode) ==
    IF Returned(k) THEN k
    ELSE ConfigureLoop([k EXCEPT !.state = "HandShaking"], stream_configs, data_transfer_mode, 1, 0)

Configure(k, stream_configs, data_transfer_mode, batch_cmd_mode) ==
    IF Len(stream_configs) = 0 THEN Return(k, V3Ok)
    ELSE ConfigureHandShaking(ConfigureBatch(k, batch_cmd_mode), stream_configs, data_transfer_mode)

\* the stream configurations of the runs: a station without selectors, one with a
\* selector and a hexadecimal sequence number, one whose sequence number is not hexadecimal
V3StreamConfigs ==
    { <<>>,
      << [selectors |-> 0, seq_num |-> "none"] >>,
      << [selectors |-> 1, seq_num |-> "hex"] >>,
      << [selectors |-> 0, seq_num |-> "bad"] >>,
      << [selectors |-> 0, seq_num |-> "none"], [selectors |-> 0, seq_num |-> "none"] >> }

\* the data transfer modes of the runs (DialUp differs from RealTime by its command only)
V3Modes == {"RealTime", "TimeWindow"}

V3Init ==
    /\ alphabet = [c \in ClientIds |-> {}]
    /\ ServerInit
    /\ neg = StationNegotiatorNew(SelectNew(<<>>))
    /\ neg_result = None
    /\ neg_cmds = <<>>
    /\ SelIdle
    /\ DecIdle
    /\ LibIdle
    /\ v3 = FramedConnectionV3New
    /\ v3_last = [op |-> "new"]

\* an operation can be called once the one before has returned
V3Ready == IF v3_last.op = "new" THEN TRUE ELSE v3_last.ret # V3Pending

\* the peer sends a reply: it is queued until an operation reads it.  An operation is
\* one step, so the replies it reads are those sent up to its step.
V3PeerSends(reply) ==
    /\ V3Ready
    /\ Len(v3.replies) < MaxReplies
    /\ \A i \in DOMAIN v3.replies : v3.replies[i] # "EOF"
    /\ v3' = [v3 EXCEPT !.replies = Append(@, reply)]
    /\ UNCHANGED <<server_vars, neg_vars, sel_vars, dec_vars, lib_vars, v3_last>>

\* one operation called on the connection: op names it, args are its arguments,
\* before is the connection it was called on and k the run of its code
V3Call(op, args, before, k) ==
    /\ V3Ready
    /\ v3' = V3Conn(k)
    /\ v3_last' = [op |-> op, args |-> args, ret |-> k.ret, wrote |-> k.wrote,
                   state |-> before.state, open |-> before.open,
                   expect_info_resp |-> before.expect_info_resp,
                   accepted_sta_cnt |-> k.accepted_sta_cnt, io |-> k.io]
    /\ UNCHANGED <<server_vars, neg_vars, sel_vars, dec_vars, lib_vars>>

V3SayHello == V3Call("say_hello", <<>>, v3, SayHello(V3Begin(v3)))

V3Shutdown == V3Call("shutdown", <<>>, v3, Shutdown(V3Begin(v3)))

V3RequestInfo == V3Call("request_info", <<>>, v3, RequestInfo(V3Begin(v3)))

V3Configure ==
    \E stream_configs \in V3StreamConfigs, data_transfer_mode \in V3Modes,
       batch_cmd_mode \in BOOLEAN :
        V3Call("configure", <<stream_configs, data_transfer_mode, batch_cmd_mode>>, v3,
               Configure(V3Begin(v3), stream_configs, data_transfer_mode, batch_cmd_mode))

V3TrySendKeepAlive == V3Call("try_send_keep_alive", <<>>, v3, TrySendKeepAlive(V3Begin(v3)))

V3AckKeepAlive == V3Call("ack_keep_alive", <<>>, v3, AckKeepAlive(V3Begin(v3)))

V3Next ==
    \/ \E reply \in V3Replies : V3PeerSends(reply)
    \/ V3SayHello
    \/ V3Shutdown
    \/ V3RequestInfo
    \/ V3Configure
    \/ V3TrySendKeepAlive
    \/ V3AckKeepAlive

V3Spec == V3Init /\ [][V3Next]_vars

(***************************************************************************)
(* The packet stream of the client: Connection::packets.  The stream owns  *)
(* the connection; a poll runs the loop of its closure, which either       *)
(* handles a tick of the keep-alive interval or the next frame.  A poll    *)
(* that finds no frame waits, and the stream is not polled after it ended. *)
(***************************************************************************)

\* the items of the stream: Ok(Some(packet)) and Ok(None)
StreamItem(kind) == [tag |-> "Item", kind |-> kind]
StreamEnd == [tag |-> "None"]

\* the match on the frame read in the closure of Connection::packets
PacketsFrameNoShutdown(k, frame) ==
    IF Returned(k) THEN k
    ELSE IF frame = "GenericDataPacket" THEN Return(k, StreamItem("GenericData"))
    ELSE IF frame \in {"INFO_LAST", "INFO_MORE", "INFO_ERR"}
    THEN Return(AckKeepAlive(k), StreamItem("Info"))
    ELSE IF frame = "End" THEN Return(k, StreamEnd)
    ELSE Return(k, V3IoError("InvalidData"))

PacketsFrame(k, frame) ==
    IF Returned(k) THEN k
    ELSE IF frame = "GenericDataPacket" THEN Return(k, StreamItem("GenericData"))
    ELSE IF frame \in {"INFO_LAST", "INFO_MORE", "INFO_ERR"}
    THEN Return(AckKeepAlive(k), StreamItem("Info"))
    ELSE IF frame = "End"
    THEN (IF Shutdown(k).ret = V3Ok THEN Return(Shutdown(k), StreamEnd) ELSE Shutdown(k))
    ELSE Return(k, V3IoError("InvalidData"))

\* the connections packets() can be called on: those the operations of the
\* connection leave behind, with nothing of the peer unread
PktConnections ==
    { c \in [state : {"Initialized", "HandShaking", "DataTransfer", "Closed"},
             phase : {"HandShaking", "DataTransfer"}, open : BOOLEAN,
             batch_cmd_mode : BOOLEAN, expect_info_resp : BOOLEAN, replies : {<<>>}] :
        /\ c.state = "Initialized" => c.phase = "HandShaking" /\ c.open /\ ~c.batch_cmd_mode
        /\ c.state = "DataTransfer" => c.phase = "DataTransfer" /\ c.open
        /\ c.state = "Closed" => ~c.open }

\* what the peer sends to a streaming client: the replies of the handshake, an INFO
\* packet followed by more of its response (header flag '*'), a data packet and END
\* (a data packet only once the peer has seen the handshake end)
PktReplies == V3Replies \cup {"INFO_MORE", "DATA", "END"}

PktInit ==
    /\ alphabet = [c \in ClientIds |-> {}]
    /\ ServerInit
    /\ neg = StationNegotiatorNew(SelectNew(<<>>))
    /\ neg_result = None
    /\ neg_cmds = <<>>
    /\ SelIdle
    /\ DecIdle
    /\ LibIdle
    /\ v3 \in PktConnections
    /\ v3_last = [op |-> "new"]

\* the stream has neither ended nor failed
PktStreaming == IF v3_last.op = "new" THEN TRUE ELSE v3_last.ret.tag \in {"Ok", "Item"}

PktPeerSends(reply) ==
    /\ reply = "DATA" => v3.phase = "DataTransfer"
    /\ V3PeerSends(reply)

\* the keep-alive arm of the select: try_send_keep_alive, whose error ends the stream
PktKeepAlive ==
    /\ PktStreaming
    /\ V3Call("keep_alive", <<>>, v3, TrySendKeepAlive(V3Begin(v3)))

\* the read_frame arm of the select, once read_frame returns
PktFrame ==
    /\ PktStreaming
    /\ ReadFrame(V3Begin(v3)).k.ret # V3Pending
    /\ V3Call("next", <<>>, v3,
              PacketsFrame(ReadFrame(V3Begin(v3)).k, ReadFrame(V3Begin(v3)).frame))

PktNext ==
    \/ \E reply \in PktReplies : PktPeerSends(reply)
    \/ PktKeepAlive
    \/ PktFrame

PktSpec == PktInit /\ [][PktNext]_vars

(***************************************************************************)
(* The server with peers whose lines make the codec fail: a line over the  *)
(* length limit, and lines the command parser rejects; and with peers that *)
(* ask for what the server does not implement: SLPROTO 3.0, END.           *)
(***************************************************************************)
\* a command line longer than MAX_COMMAND_LINE_LENGTH
LineLong == [kw |-> <<"H","E","L","L","O">>, args |-> <<>>, long |-> TRUE]

\* a request for a protocol version the server does not implement
LineSlProto30 == Line(<<"S","L","P","R","O","T","O">>, << <<"3",".","0">> >>)

ErrAlphabets ==
    { [c \in ClientIds |-> IF c = 0 THEN {LineLong, LineHello, LineBye} ELSE {}],
      [c \in ClientIds |-> IF c = 0 THEN {LineSelectNoArg, LineInfo, LineHello} ELSE {}],
      [c \in ClientIds |-> IF c = 0 THEN {LineSlProto30, LineHello} ELSE {}],
      [c \in ClientIds |-> IF c = 0 THEN {LineEnd} ELSE {LineHello}] }

ErrInit ==
    /\ alphabet \in ErrAlphabets
    /\ ServerInit
    /\ neg = StationNegotiatorNew(SelectNew(<<>>))
    /\ neg_result = None
    /\ neg_cmds = <<>>
    /\ SelIdle
    /\ DecIdle
    /\ V3Idle
    /\ LibIdle

ErrSpec == ErrInit /\ [][Next]_vars

(***************************************************************************)
(* The codec of the v3 client (src/v3/connection/seedlink.rs) on bytes,    *)
(* in its handshaking phase: dec is the SeedLinkCodec, dec_buf the buffer  *)
(* of the FramedRead, dec_input what the peer has sent and the socket has  *)
(* not delivered yet, dec_out the frames decoded.                          *)
(***************************************************************************)
HEADER_SIZE == 8
RECORD_SIZE == 512
INFO_SIGNATURE == <<"S","L","I","N","F","O">>
ERROR_SIGNATURE == <<"E","R","R","O","R">>
END_SIGNATURE == <<"E","N","D">>
OK_SIGNATURE == <<"O","K">>

\* the frames: Frame::Ok, Frame::Error, Frame::End, Frame::Line(bytes), Frame::InfoPacket(bytes)
V3Frame(kind, bytes) == [kind |-> kind, bytes |-> bytes]

\* SeedLinkCodec::new
V3CodecNew == [session_phase |-> "HandShaking", buf |-> <<>>]

\* Vec::pop: removes the last element, if there is one
Pop(buf) == IF buf = <<>> THEN buf ELSE SubSeq(buf, 1, Len(buf) - 1)

\* try_to_finalize_frame_buffer taking the bytes that are there, without waiting
\* for those missing
TryFinalizeInfoPacketFramePartial(cd, src, bytes_missing) ==
    Returns([cd EXCEPT !.buf = <<>>], Advance(src, Min(bytes_missing, Len(src))),
            V3Frame("InfoPacket", cd.buf \o SubSeq(src, 1, Min(bytes_missing, Len(src)))))

\* SeedLinkCodec::try_finalize_info_packet_frame over try_to_finalize_frame_buffer
TryFinalizeInfoPacketFrame(cd, src, bytes_missing) ==
    IF Len(src) < bytes_missing THEN Returns(cd, src, NoFrame)
    ELSE Returns([cd EXCEPT !.buf = <<>>], Advance(src, bytes_missing),
                 V3Frame("InfoPacket", cd.buf \o SubSeq(src, 1, bytes_missing)))

\* the loop of SeedLinkCodec::decode in the handshaking phase
RECURSIVE HandShakingLoop(_, _)
HandShakingLoop(cd, src) ==
    IF src = <<>> THEN Returns(cd, src, NoFrame)
    ELSE IF Head(src) = LF
    THEN IF Pop(cd.buf) = OK_SIGNATURE
         THEN Returns([cd EXCEPT !.buf = <<>>], Tail(src), V3Frame("Ok", <<>>))
         ELSE IF Pop(cd.buf) = ERROR_SIGNATURE
         THEN Returns([cd EXCEPT !.buf = <<>>], Tail(src), V3Frame("Error", <<>>))
         ELSE Returns([cd EXCEPT !.buf = <<>>], Tail(src), V3Frame("Line", Pop(cd.buf)))
    ELSE IF Append(cd.buf, Head(src)) = END_SIGNATURE
    THEN Returns([cd EXCEPT !.buf = <<>>], Tail(src), V3Frame("End", <<>>))
    ELSE IF Append(cd.buf, Head(src)) = INFO_SIGNATURE
    THEN TryFinalizeInfoPacketFrame([cd EXCEPT !.buf = Append(@, Head(src))], Tail(src),
                                    HEADER_SIZE + RECORD_SIZE - Len(INFO_SIGNATURE))
    ELSE HandShakingLoop([cd EXCEPT !.buf = Append(@, Head(src))], Tail(src))

\* SeedLinkCodec::decode, handshaking phase: [codec, buf, result]
V3DecodeBytes(cd, src) ==
    IF cd.buf = INFO_SIGNATURE
    THEN TryFinalizeInfoPacketFrame(cd, src, HEADER_SIZE + RECORD_SIZE - Len(INFO_SIGNATURE))
    ELSE HandShakingLoop(cd, src)

\* n bytes that repeat the bytes of pattern
Repeat(pattern, n) == [i \in 1..n |-> pattern[((i - 1) % Len(pattern)) + 1]]

\* the header rest and record of an INFO packet, 514 bytes: plain text, text with line
\* endings, with the signatures of END, OK and ERROR, and with the INFO signature itself
V3InfoPayloads ==
    { Repeat(p, HEADER_SIZE + RECORD_SIZE - Len(INFO_SIGNATURE)) :
        p \in { <<"x">>, <<"a", CR, LF>>, <<LF>>, <<"E","N","D">>, <<"O","K",CR,LF>>,
                <<"E","R","R","O","R",LF>>, <<"S","L","I","N","F","O",CR>> } }

\* the response lines of a handshake
V3LineContents ==
    { OK_SIGNATURE, ERROR_SIGNATURE, END_SIGNATURE, <<"E","N","D","E","D">>,
      <<"S","e","e","d","L","i","n","k"," ","v","3",".","1">> }

\* the runs: an INFO packet, or a response line with one of the three terminators;
\* each is followed by the line OK<CR><LF>
V3DecCases ==
    { [kind |-> "info", c |-> INFO_SIGNATURE \o p, t |-> <<>>] : p \in V3InfoPayloads }
    \cup { [kind |-> "line", c |-> c, t |-> t] : c \in V3LineContents, t \in DecTerminators }

V3DecBytes(case) == case.c \o case.t \o OK_SIGNATURE \o <<CR, LF>>

\* the numbers of bytes one read of the socket delivers (at most what is left)
V3DecChunks == {1, 2, 3, 5, 6, 7, 200, 519, 520, 521, 2 * (HEADER_SIZE + RECORD_SIZE)}

V3DecInit ==
    /\ alphabet = [c \in ClientIds |-> {}]
    /\ ServerInit
    /\ neg = StationNegotiatorNew(SelectNew(<<>>))
    /\ neg_result = None
    /\ neg_cmds = <<>>
    /\ SelIdle
    /\ V3Idle
    /\ LibIdle
    /\ dec = V3CodecNew
    /\ dec_buf = <<>>
    /\ dec_out = <<>>
    /\ dec_idle = TRUE
    /\ dec_feeds = 0
    /\ dec_case \in V3DecCases
    /\ dec_input = V3DecBytes(dec_case)

\* a read of the socket: cnt bytes, or what is left, arrive in the buffer; after
\* MaxFeeds reads the rest arrives at once
V3DecFeed(cnt) ==
    /\ dec_input # <<>>
    /\ IF cnt = Max(V3DecChunks) THEN TRUE ELSE cnt <= Len(dec_input) /\ dec_feeds < MaxFeeds
    /\ dec_feeds' = dec_feeds + 1
    /\ dec_buf' = dec_buf \o SubSeq(dec_input, 1, Min(cnt, Len(dec_input)))
    /\ dec_input' = Advance(dec_input, Min(cnt, Len(dec_input)))
    /\ dec_idle' = FALSE
    /\ UNCHANGED <<server_vars, neg_vars, sel_vars, v3_vars, lib_vars, dec, dec_out, dec_case>>

\* codec.decode(&mut buf), called by FramedRead until it returns None
V3DecDecode ==
    /\ ~dec_idle
    /\ \E r \in {V3DecodeBytes(dec, dec_buf)} :
          /\ dec' = r.codec
          /\ dec_buf' = r.buf
          /\ dec_idle' = (r.result.kind = "None")
          /\ dec_out' = IF r.result.kind = "None" THEN dec_out ELSE Append(dec_out, r.result)
    /\ UNCHANGED <<server_vars, neg_vars, sel_vars, v3_vars, lib_vars, dec_input, dec_feeds, dec_case>>

V3DecNext ==
    \/ \E cnt \in V3DecChunks : V3DecFeed(cnt)
    \/ V3DecDecode

V3DecSpec == V3DecInit /\ [][V3DecNext]_vars

(***************************************************************************)
(* Functions of the client library called on their own: the protocol       *)
(* version chosen at connect (src/connection.rs, src/util.rs) and the      *)
(* round trip of a v4 command through Display (src/v4/cmd).                *)
(***************************************************************************)
\* lib.rs: AVAILABLE_CLIENT_PROTO_VERSIONS
AVAILABLE_CLIENT_PROTO_VERSIONS == <<3>>

\* str::splitn(2, " v"): the text before and after the first " v", or the text itself
SplitAtSpaceV(s) ==
    IF \E i \in 1..(Len(s) - 1) : s[i] = " " /\ s[i + 1] = "v"
    THEN LET i == CHOOSE k \in 1..(Len(s) - 1) :
                     /\ s[k] = " " /\ s[k + 1] = "v"
                     /\ \A j \in 1..(k - 1) : ~(s[j] = " " /\ s[j + 1] = "v")
         IN  <<SubSeq(s, 1, i - 1), SubSeq(s, i + 2, Len(s))>>
    ELSE <<s>>

\* str::parse::<f32> on texts of digits and periods: digits with at most one period
ParseF32Ok(s) ==
    /\ \A i \in DOMAIN s : IsDigit(s[i]) \/ s[i] = "."
    /\ \E i \in DOMAIN s : IsDigit(s[i])
    /\ Cardinality({i \in DOMAIN s : s[i] = "."}) <= 1

\* util::parse_hello_response: Ok(protocol_versions) or the io error
ParseHelloResponse(first_resp_line) ==
    LET split == SplitAtSpaceV(first_resp_line)
    IN  IF Len(split) # 2 THEN Err(V3IoError("InvalidData"))
        ELSE IF Len(split[2]) < 3 THEN Err(V3IoError("InvalidData"))
        ELSE IF ~ParseF32Ok(SubSeq(split[2], 1, 3)) THEN Err(V3IoError("InvalidData"))
        ELSE IF ToLowercase(split[1]) # <<"s","e","e","d","l","i","n","k">>
        THEN Err(V3IoError("InvalidData"))
        ELSE Ok(<<SubSeq(split[2], 1, 3)>>)

\* the loop of setup_connection over AVAILABLE_CLIENT_PROTO_VERSIONS, newest first
RECURSIVE SelectAvailable(_, _, _)
SelectAvailable(selected, majors, i) ==
    IF i = 0 THEN selected
    ELSE SelectAvailable(IF AVAILABLE_CLIENT_PROTO_VERSIONS[i] \in majors
                         THEN Some(AVAILABLE_CLIENT_PROTO_VERSIONS[i]) ELSE selected,
                         majors, i - 1)

\* setup_connection on the first line of the peer's HELLO response: Ok(version of the
\* connection made) or the error
SetupConnection(first_resp_line, protocol_version) ==
    LET hello_resp == ParseHelloResponse(first_resp_line)
        parsed == [i \in DOMAIN hello_resp.v |-> ParseU8(Split(hello_resp.v[i], ".")[1])]
        majors == {parsed[i].v : i \in DOMAIN parsed}
        incompatible == "incompatible seedlink protocol versions"
        selected == SelectAvailable(protocol_version, majors, Len(AVAILABLE_CLIENT_PROTO_VERSIONS))
    IN  IF IsErr(hello_resp) THEN hello_resp
        ELSE IF \E i \in DOMAIN parsed : IsErr(parsed[i]) THEN Err(V3IoError("InvalidData"))
        ELSE IF IsSome(protocol_version) /\ protocol_version.v \notin majors
        THEN Err(V3ClientError(
                 "incompatible seedlink protocol versions: protocol version not implemented by remote peer"))
        ELSE IF ~IsSome(selected) THEN Err(V3ClientError(incompatible))
        ELSE IF selected.v = 3 THEN Ok(3)
        ELSE Err(V3ClientError(incompatible))

\* the HELLO banners of the runs: an identifier, " v", a version, a release, and
\* the SLPROTO entries of a v4 server
BannerIds == { <<"S","e","e","d","L","i","n","k">>, <<"S","E","E","D","L","I","N","K">>,
              <<"R","i","n","g">> }
BannerVersions == { <<"3",".","1">>, <<"3",".","0">>, <<"4",".","0">>, <<"2",".","9">>,
                   <<"3">>, <<"x",".","y">>, <<".","3","1">> }
BannerSlProtos == { <<>>, << <<"4",".","0">> >>, << <<"4",".","0">>, <<"3",".","1">> >>,
                   << <<"3",".","1">> >> }

RECURSIVE SlProtoEntries(_)
SlProtoEntries(versions) ==
    IF versions = <<>> THEN <<>>
    ELSE <<" ","S","L","P","R","O","T","O",":">> \o Head(versions) \o SlProtoEntries(Tail(versions))

Banner(id, version, slprotos) ==
    [id |-> id, version |-> version, slprotos |-> slprotos,
     line |-> id \o <<" ","v">> \o version \o <<" ","(","2","0","2","0",")">>
              \o (IF slprotos = <<>> THEN <<>> ELSE <<" ",":",":">> \o SlProtoEntries(slprotos))]

Banners == { Banner(id, version, slprotos) :
               id \in BannerIds, version \in BannerVersions, slprotos \in BannerSlProtos }

\* connect with the peer answering HELLO with the banner; protocol_version is what the
\* URL pins (slinkv3:// pins 3, slink:// nothing)
LibConnect(banner, protocol_version) ==
    /\ call' = [fn |-> "connect", banner |-> banner, protocol_version |-> protocol_version,
                ret |-> SetupConnection(banner.line, protocol_version)]
    /\ UNCHANGED <<server_vars, neg_vars, sel_vars, dec_vars, v3_vars, db, db_last>>

\* the words of a displayed command as a command line
WordsLine(words) == Line(Head(words), Tail(words))

\* Display for InfoItem
InfoItemToString(item) ==
    CASE item = "Id" -> <<"i","d">>
      [] item = "Formats" -> <<"f","o","r","m","a","t","s">>
      [] item = "Stations" -> <<"s","t","a","t","i","o","n","s">>
      [] item = "Streams" -> <<"s","t","r","e","a","m","s">>
      [] item = "Connections" -> <<"c","o","n","n","e","c","t","i","o","n","s">>
      [] item = "Capabilities" -> <<"c","a","p","a","b","i","l","i","t","i","e","s">>

\* Display for Info: the words after the command name
InfoToString(cmd) ==
    <<InfoItemToString(cmd.item)>>
    \o (IF ~IsSome(cmd.station_pattern) THEN <<>>
        ELSE <<cmd.station_pattern.v>>
             \o (IF ~IsSome(cmd.stream_pattern) THEN <<>>
                 ELSE << cmd.stream_pattern.v
                         \o (IF IsSome(cmd.format_subformat_pattern)
                             THEN <<".">> \o cmd.format_subformat_pattern.v ELSE <<>>) >>))

\* Display for SelectPattern
SelectPatternToString(pat) ==
    (IF pat.exclude THEN <<"!">> ELSE <<>>) \o pat.stream_pattern
    \o (IF IsSome(pat.format_subformat_pattern) THEN <<".">> \o pat.format_subformat_pattern.v ELSE <<>>)
    \o (IF IsSome(pat.filter) THEN <<":">> \o pat.filter.v ELSE <<>>)

\* Display for Command, as the command line the text is.  Display for Data is modelled
\* for Data::default(), the only Data that Command::from_str returns.
CommandToString(cmd) ==
    CASE cmd.type = "Auth" ->
            WordsLine(<<NAME_AUTH,
                        IF cmd.method = "UserPass" THEN <<"u","s","e","r","p","a","s","s">>
                        ELSE <<"j","w","t">>>> \o cmd.credentials)
      [] cmd.type = "Bye" -> WordsLine(<<NAME_BYE>>)
      [] cmd.type = "Data" -> WordsLine(<<NAME_DATA>>)
      [] cmd.type = "End" -> WordsLine(<<NAME_END>>)
      [] cmd.type = "EndFetch" -> WordsLine(<<NAME_ENDFETCH>>)
      [] cmd.type = "Hello" -> WordsLine(<<NAME_HELLO>>)
      [] cmd.type = "Info" -> WordsLine(<<NAME_INFO>> \o InfoToString(cmd))
      [] cmd.type = "Select" ->
            WordsLine(<<NAME_SELECT>>
                      \o [i \in DOMAIN cmd.patterns |-> SelectPatternToString(cmd.patterns[i])])
      [] cmd.type = "SlProto" -> WordsLine(<<NAME_SLPROTO>>)
      [] cmd.type = "Station" -> WordsLine(<<NAME_STATION, cmd.station_pattern>>)
      [] cmd.type = "Unknown" -> WordsLine(<<cmd.command_name>>)
      [] cmd.type = "UserAgent" ->
            WordsLine(<<NAME_USERAGENT>>
                      \o [i \in DOMAIN cmd.info |->
                             cmd.info[i].program_or_library \o <<"/">> \o cmd.info[i].version])

\* the documented commands with canonical arguments
LibLines ==
    { LineHello, LineBye, LineEnd, Line(<<"E","N","D","F","E","T","C","H">>, <<>>),
      LineSlProto40, Line(<<"S","L","P","R","O","T","O">>, << <<"3",".","1">> >>),
      LineUserAgent, Line(<<"U","S","E","R","A","G","E","N","T">>, << <<"a","/","1">>, <<"b","/","2">> >>),
      Line(<<"A","U","T","H">>, << <<"U","S","E","R","P","A","S","S">>, <<"u">>, <<"p">> >>),
      Line(<<"A","U","T","H">>, << <<"T","O","K","E","N">>, <<"t">> >>),
      LineStation, Line(<<"s","t","a","t","i","o","n">>, << <<"X","X","_","*">> >>),
      LineSelect, LineSelectTwo, LineSelectOther,
      Line(<<"S","E","L","E","C","T">>, << <<"0","0","_","B","_","H","_","Z",".","D",":","n","a","t","i","v","e">> >>),
      LineData, LineDataAll,
      LineInfoId, Line(<<"I","N","F","O">>, << <<"F","O","R","M","A","T","S">> >>),
      Line(<<"I","N","F","O">>, << <<"C","A","P","A","B","I","L","I","T","I","E","S">> >>),
      Line(<<"I","N","F","O">>, << <<"S","T","A","T","I","O","N","S">> >>),
      Line(<<"I","N","F","O">>, << <<"S","T","A","T","I","O","N","S">>, <<"X","X","_","*">> >>),
      Line(<<"I","N","F","O">>, << <<"S","T","R","E","A","M","S">>, <<"X","X","_","*">>, <<"*","_","Z">> >>),
      Line(<<"I","N","F","O">>, << <<"S","T","R","E","A","M","S">>, <<"X","X","_","*">>, <<"*","_","Z",".","D">> >>),
      Line(<<"I","N","F","O">>, << <<"C","O","N","N","E","C","T","I","O","N","S">>, <<"*">> >>) }

\* Command::parse of a line, Display of the value, Command::parse of the text
LibRoundTrip(line) ==
    /\ call' = [fn |-> "parse", line |-> line, parsed |-> CommandFromStr(line),
                reparsed |-> IF IsOk(CommandFromStr(line))
                             THEN CommandFromStr(CommandToString(CommandFromStr(line).v))
                             ELSE CommandFromStr(line)]
    /\ UNCHANGED <<server_vars, neg_vars, sel_vars, dec_vars, v3_vars, db, db_last>>

LibInit ==
    /\ alphabet = [c \in ClientIds |-> {}]
    /\ ServerInit
    /\ neg = StationNegotiatorNew(SelectNew(<<>>))
    /\ neg_result = None
    /\ neg_cmds = <<>>
    /\ SelIdle
    /\ DecIdle
    /\ V3Idle
    /\ LibIdle

LibNext ==
    \/ \E banner \in Banners, protocol_version \in {None, Some(3), Some(4)} :
          LibConnect(banner, protocol_version)
    \/ \E line \in LibLines : LibRoundTrip(line)

LibSpec == LibInit /\ [][LibNext]_vars

(***************************************************************************)
(* The StateDB (src/state.rs) shared by tasks through its clones, and a    *)
(* Connection configured from it (src/connection.rs).  A store is three    *)
(* steps: the call, which spawns the blocking closure, the closure, which  *)
(* writes under the mutex of the connection, and the return of the await.  *)
(* Reads run their closure and return in one step.                         *)
(***************************************************************************)
\* the stream identifiers of the runs, parsed: FDSN:XX_A_00_B_H_N and
\* FDSN:XX_A_00_B_H_Z, two streams of one station, in the order of their texts
SidAZ == [net |-> "XX", sta |-> "A", loc |-> <<"0","0">>, cha |-> <<"B","_","H","_","Z">>]
SidAN == [net |-> "XX", sta |-> "A", loc |-> <<"0","0">>, cha |-> <<"B","_","H","_","N">>]
Sids == <<SidAN, SidAZ>>

\* the tasks that hold a clone of the StateDB
DbTasks == {1, 2}

\* the sequence numbers stored: 2 and 16, in hexadecimal "2" and "10"
DbSeqNums == {2, 16}

\* format!("{:x}", n) of a sequence number below 256
HexDigits == <<"0","1","2","3","4","5","6","7","8","9","a","b","c","d","e","f">>
FormatHex(n) ==
    IF n < 16 THEN <<HexDigits[n + 1]>> ELSE <<HexDigits[(n \div 16) + 1], HexDigits[(n % 16) + 1]>>

\* the order of str: bytewise, a proper prefix before what it begins
RECURSIVE StrLt(_, _)
StrLt(a, b) ==
    IF b = <<>> THEN FALSE
    ELSE IF a = <<>> THEN TRUE
    ELSE IF Head(a) = Head(b) THEN StrLt(Tail(a), Tail(b))
    ELSE (CHOOSE i \in DOMAIN HexDigits : HexDigits[i] = Head(a))
         < (CHOOSE i \in DOMAIN HexDigits : HexDigits[i] = Head(b))

\* StateDB::open on an empty database, and a Connection::new: no row (0 at a sid), no
\* store running, nothing stored yet, no stream added.  written and completed are the
\* history of the stores: at each sid, the value of the store whose closure ran last
\* and the value of the store that returned last; overlapped tells that a store of
\* the sid was called while another store of it was running.
StateDBOpen ==
    [open |-> TRUE,
     rows |-> [i \in DOMAIN Sids |-> 0],
     tasks |-> [t \in DbTasks |-> [pc |-> "idle", sid |-> 1, seq |-> 0]],
     stores |-> 0,
     written |-> [i \in DOMAIN Sids |-> 0],
     completed |-> [i \in DOMAIN Sids |-> 0],
     overlapped |-> [i \in DOMAIN Sids |-> FALSE],
     stream_configs |-> <<>>,
     recovers |-> 0]

\* a write that leaves an existing row as it is (INSERT OR IGNORE)
InsertOrIgnore(rows, i, seq_num) == IF rows[i] = 0 THEN [rows EXCEPT ![i] = seq_num] ELSE rows

\* REPLACE INTO stream(sid, seq) with the unique index on sid: one row per sid
Replace(rows, i, seq_num) == [rows EXCEPT ![i] = seq_num]

\* StateDB::seq_num: the row of the sid; query_row fails where there is no row
SeqNum(rows, i) ==
    IF rows[i] = 0 THEN Err([tag |-> "StateDBError"]) ELSE Ok(Some(rows[i]))

\* StateDB::state: the rows ordered by sid
RECURSIVE State(_, _)
State(rows, i) ==
    IF i > Len(rows) THEN <<>>
    ELSE (IF rows[i] = 0 THEN <<>> ELSE <<[sid |-> Sids[i], seq_num |-> rows[i]]>>)
         \o State(rows, i + 1)

\* util::get_select_arg_v3
GetSelectArgV3(sid) ==
    LET split == Split(sid.cha, "_") IN sid.loc \o split[1] \o split[2] \o split[3]

\* StreamConfigs::add_stream: stream_configs as the list of its values
AddStream(stream_configs, net, sta, select_arg, seq_num) ==
    IF \E j \in DOMAIN stream_configs :
          stream_configs[j].network = net /\ stream_configs[j].station = sta
    THEN [j \in DOMAIN stream_configs |->
            IF stream_configs[j].network = net /\ stream_configs[j].station = sta
               /\ IsSome(select_arg)
            THEN [stream_configs[j] EXCEPT !.select_args = Append(@, select_arg.v)]
            ELSE stream_configs[j]]
    ELSE Append(stream_configs,
                [network |-> net, station |-> sta,
                 select_args |-> IF IsSome(select_arg) THEN <<select_arg.v>> ELSE <<>>,
                 seq_num |-> seq_num])

\* StreamConfigs::seq_num
StreamConfigsSeqNum(stream_configs, net, sta) ==
    IF \E j \in DOMAIN stream_configs :
          stream_configs[j].network = net /\ stream_configs[j].station = sta
    THEN (LET j == CHOOSE j \in DOMAIN stream_configs :
                      stream_configs[j].network = net /\ stream_configs[j].station = sta
          IN  stream_configs[j].seq_num)
    ELSE None

\* the loop of configure_from_state_db over db.state(): its local stream_configs.  The
\* sequence numbers are compared as their hexadecimal texts.
RECURSIVE StateStreamConfigs(_, _, _)
StateStreamConfigs(stream_configs, state, i) ==
    IF i > Len(state) THEN stream_configs
    ELSE LET prev == StreamConfigsSeqNum(stream_configs, state[i].sid.net, state[i].sid.sta)
             seq_num == IF IsSome(prev) THEN (IF StrLt(FormatHex(state[i].seq_num), prev.v)
                                              THEN None ELSE Some(FormatHex(state[i].seq_num)))
                        ELSE Some(FormatHex(state[i].seq_num))
         IN  StateStreamConfigs(AddStream(stream_configs, state[i].sid.net, state[i].sid.sta,
                                          Some(GetSelectArgV3(state[i].sid)), seq_num),
                                state, i + 1)

\* the body of the loop of Connection::recover_state for one row of the database
RecoverRow(stream_config, row, add_select_args) ==
    IF stream_config.network # row.sid.net \/ stream_config.station # row.sid.sta
    THEN stream_config
    ELSE LET added == IF add_select_args
                      THEN [stream_config EXCEPT !.select_args = Append(@, GetSelectArgV3(row.sid))]
                      ELSE stream_config
         IN  IF IsSome(added.seq_num)
             THEN (IF StrLt(FormatHex(row.seq_num), added.seq_num.v) THEN added
                   ELSE [added EXCEPT !.seq_num = Some(FormatHex(row.seq_num))])
             ELSE [added EXCEPT !.seq_num = Some(FormatHex(row.seq_num))]

\* Connection::recover_state: the rows of db.state() in their order, from row i
RECURSIVE RecoverState(_, _, _, _)
RecoverState(stream_configs, state, add_select_args, i) ==
    IF i > Len(state) THEN stream_configs
    ELSE RecoverState([j \in DOMAIN stream_configs |->
                          RecoverRow(stream_configs[j], state[i], add_select_args)],
                      state, add_select_args, i + 1)

\* what FramedConnectionV3::configure reads of a StreamConfig: the number of its
\* selectors and whether it has a sequence number
AsV3StreamConfigs(stream_configs) ==
    [j \in DOMAIN stream_configs |->
        [selectors |-> Len(stream_configs[j].select_args),
         seq_num |-> IF IsSome(stream_configs[j].seq_num) THEN "hex" ELSE "none"]]

\* Connection::configure_from_state_db on connection k: the local stream_configs built
\* from the database is shadowed by the values of self.stream_configs, which is what
\* configure is called with
ConfigureFromStateDb(k, rows, self_stream_configs, data_transfer_mode, pipelining) ==
    LET stream_configs == StateStreamConfigs(<<>>, State(rows, 1), 1)
    IN  LET shadowing == self_stream_configs
        IN  Configure(k, AsV3StreamConfigs(shadowing), data_transfer_mode, pipelining)

\* the connection configure_from_state_db is called on: after HELLO, with a peer that
\* answers every command with OK
DbConnection == [FramedConnectionV3New EXCEPT !.state = "HandShaking",
                                             !.replies = [i \in 1..8 |-> "OK"]]

DbInit ==
    /\ alphabet = [c \in ClientIds |-> {}]
    /\ ServerInit
    /\ neg = StationNegotiatorNew(SelectNew(<<>>))
    /\ neg_result = None
    /\ neg_cmds = <<>>
    /\ SelIdle
    /\ DecIdle
    /\ V3Idle
    /\ call = [fn |-> "none"]
    /\ db = StateDBOpen
    /\ db_last = [op |-> "new"]

\* store(sid, seq_num) is called in task t: the closure is spawned
DbStoreCall(t, i, seq_num) ==
    /\ db.tasks[t].pc = "idle"
    /\ db.stores < MaxStores
    /\ db' = [db EXCEPT !.tasks[t] = [pc |-> "spawned", sid |-> i, seq |-> seq_num],
                        !.stores = @ + 1,
                        !.overlapped[i] =
                            IF \E u \in DbTasks : db.tasks[u].pc # "idle" /\ db.tasks[u].sid = i
                            THEN TRUE ELSE @]
    /\ UNCHANGED <<server_vars, neg_vars, sel_vars, dec_vars, v3_vars, call, db_last>>

\* the closure of store runs: it holds the mutex and executes the REPLACE
DbStoreExec(t) ==
    /\ db.tasks[t].pc = "spawned"
    /\ db' = [db EXCEPT !.tasks[t].pc = "written",
                        !.rows = Replace(@, db.tasks[t].sid, db.tasks[t].seq),
                        !.written[db.tasks[t].sid] = db.tasks[t].seq]
    /\ UNCHANGED <<server_vars, neg_vars, sel_vars, dec_vars, v3_vars, call, db_last>>

\* join.await returns in task t: the store is completed
DbStoreReturn(t) ==
    /\ db.tasks[t].pc = "written"
    /\ db' = [db EXCEPT !.tasks[t].pc = "idle",
                        !.completed[db.tasks[t].sid] = db.tasks[t].seq]
    /\ UNCHANGED <<server_vars, neg_vars, sel_vars, dec_vars, v3_vars, call, db_last>>

\* seq_num(sid) is called and returns
DbSeqNum(i) ==
    /\ db_last' = [op |-> "seq_num", sid |-> i, ret |-> SeqNum(db.rows, i),
                   written |-> db.written[i], completed |-> db.completed[i], overlapped |-> db.overlapped[i],
                   running |-> \E t \in DbTasks : db.tasks[t].pc # "idle" /\ db.tasks[t].sid = i]
    /\ UNCHANGED <<server_vars, neg_vars, sel_vars, dec_vars, v3_vars, call, db>>

\* Connection::add_stream
DbAddStream(net, sta, select_arg, seq_num) ==
    /\ db' = [db EXCEPT !.stream_configs = AddStream(@, net, sta, select_arg, seq_num)]
    /\ db' # db
    /\ UNCHANGED <<server_vars, neg_vars, sel_vars, dec_vars, v3_vars, call, db_last>>

\* Connection::recover_state is called and returns
DbRecoverState(add_select_args) ==
    /\ db.recovers < MaxRecovers
    /\ db' = [db EXCEPT !.stream_configs = RecoverState(@, State(db.rows, 1), add_select_args, 1),
                        !.recovers = @ + 1]
    /\ db_last' = [op |-> "recover_state", ret |-> V3Ok, rows |-> db.rows,
                   before |-> db.stream_configs]
    /\ UNCHANGED <<server_vars, neg_vars, sel_vars, dec_vars, v3_vars, call>>

\* Connection::configure_from_state_db is called and returns
DbConfigure(data_transfer_mode, pipelining) ==
    /\ \E k \in {ConfigureFromStateDb(V3Begin(DbConnection), db.rows, db.stream_configs,
                                       data_transfer_mode, pipelining)} :
          db_last' = [op |-> "configure_from_state_db", ret |-> k.ret, wrote |-> k.wrote,
                      rows |-> db.rows]
    /\ UNCHANGED <<server_vars, neg_vars, sel_vars, dec_vars, v3_vars, call, db>>

DbNext ==
    \/ \E t \in DbTasks, i \in DOMAIN Sids, seq_num \in DbSeqNums : DbStoreCall(t, i, seq_num)
    \/ \E t \in DbTasks : DbStoreExec(t)
    \/ \E t \in DbTasks : DbStoreReturn(t)
    \/ \E i \in DOMAIN Sids : DbSeqNum(i)

DbSpec == DbInit /\ [][DbNext]_vars

\* a Connection and the StateDB of earlier runs: each sid has no row or one of the
\* sequence numbers, and no store is running
ConInit ==
    /\ alphabet = [c \in ClientIds |-> {}]
    /\ ServerInit
    /\ neg = StationNegotiatorNew(SelectNew(<<>>))
    /\ neg_result = None
    /\ neg_cmds = <<>>
    /\ SelIdle
    /\ DecIdle
    /\ V3Idle
    /\ call = [fn |-> "none"]
    /\ \E rows \in [DOMAIN Sids -> {0} \cup DbSeqNums] :
          db = [StateDBOpen EXCEPT !.rows = rows, !.written = rows, !.completed = rows]
    /\ db_last = [op |-> "new"]

ConNext ==
    \/ \E seq_num \in {None, Some(FormatHex(9))} : DbAddStream("XX", "A", None, seq_num)
    \/ DbAddStream("XX", "C", None, None)
    \/ \E add_select_args \in BOOLEAN : DbRecoverState(add_select_args)
    \/ \E pipelining \in BOOLEAN : DbConfigure("RealTime", pipelining)

ConSpec == ConInit /\ [][ConNext]_vars

(***************************************************************************)
(* Vocabulary of the properties.                                           *)
(***************************************************************************)
\* a written line is the command line `line`
SameLine(l, line) == l.kw = line.kw /\ l.args = line.args

\* client c has written exactly the command lines `lines`, in this order
SentExactly(c, lines) ==
    /\ Len(sent[c]) = Len(lines)
    /\ \A i \in DOMAIN lines : SameLine(sent[c][i], lines[i])

\* a step of the server: of the task of a client or of the main loop
ServerNext ==
    \/ MainLoop
    \/ \E c \in ClientIds :
          \/ StartClient(c) \/ ReaderNext(c) \/ ReaderBody(c)
          \/ WriterInbox(c) \/ WriterInternal(c) \/ WriterBreak(c) \/ ClientLoopEnd(c)

\* the server has come to rest: no step of it changes anything until a peer
\* acts again
AtRest == ~ENABLED <<ServerNext>>_vars

\* the items of what a client has received that answer line n
Answers(c, n) == SelectSeq(out[c], LAMBDA item : item.n = n)

\* what a client has received of the replies of the main loop
FromInbox(c) == SelectSeq(out[c], LAMBDA item : item.via = "inbox")

\* an OK line
IsOkLine(item) == item.t = "line" /\ item.text = <<"OK">>

(***************************************************************************)
(* C1.  STATION XX_YY, then DATA without arguments.                        *)
(***************************************************************************)
\* C1: a client that has sent STATION XX_YY and then DATA, and stays
\* connected, has received exactly two OK replies once the server is at rest,
\* and its committed selects hold one select whose stream is effective-selected
\* and whose station has the sequence number Next.
C1_StationThenData ==
    \A c \in ClientIds :
        SentExactly(c, <<LineStation, LineData>>) /\ ~peer_closed[c] /\ AtRest
        => /\ Len(out[c]) = 2
           /\ \A i \in DOMAIN out[c] : IsOkLine(out[c][i])
           /\ IsSome(clients[c])
           /\ Len(clients[c].v.selects) = 1
           /\ \A i \in DOMAIN clients[c].v.selects[1] :
                 /\ clients[c].v.selects[1][i].seq_num = SeqNext
                 /\ \A j \in DOMAIN clients[c].v.selects[1][i].streams :
                       IsSelected(clients[c].v.selects[1][i].streams[j])

Takes(msg) ==
    /\ main = "running"
    /\ main_inbox # <<>>
    /\ msg = Head(main_inbox)
    /\ msg.type \in {"Command", "ErrorInfo"}
    /\ delivered'[msg.id] # delivered[msg.id]
    /\ IsSome(clients[msg.id])

\* the main loop takes a DATA of a client that has a negotiator
TakesData(msg) ==
    /\ Takes(msg)
    /\ msg.type = "Command"
    /\ msg.cmd.type = "Data"
    /\ IsSome(clients[msg.id].v.negotiator)

\* the Select of a negotiator with the directives of a DATA without
\* arguments applied: every station with a selected stream starts at Next
Directed(select) ==
    [i \in DOMAIN select |->
        IF \E j \in DOMAIN select[i].streams : select[i].streams[j].selected
        THEN [select[i] EXCEPT !.seq_num = SeqNext]
        ELSE select[i]]

\* the client's inbox takes one more message
HasRoom(c) == actor[c] \in {"spawned", "running"} /\ wpc[c] = "run" /\ Len(inbox[c]) < WriterInboxCapacity

\* C3 (as stated): whenever the main loop processes a DATA of a client with a
\* negotiator, the Select with the directives applied is appended to the
\* client's selects, the negotiator becomes None and one OK is enqueued.
C3_DataCommits ==
    [][main_inbox # <<>> =>
       LET msg == Head(main_inbox)
       IN  TakesData(msg)
          => /\ IsSome(clients'[msg.id])
             /\ clients'[msg.id].v.selects =
                   Append(clients[msg.id].v.selects, Directed(clients[msg.id].v.negotiator.v.select))
             /\ ~IsSome(clients'[msg.id].v.negotiator)
             /\ Len(enqueued'[msg.id]) = Len(enqueued[msg.id]) + 1
             /\ enqueued'[msg.id][Len(enqueued'[msg.id])].type = "Ok"]_vars

\* C3 (amended): the same, where the inbox of the client takes the OK; where
\* it does not, nothing is enqueued and the client is removed from the map.
C3_DataCommitsOrRemoves ==
    [][main_inbox # <<>> =>
       LET msg == Head(main_inbox)
       IN  TakesData(msg)
          => IF HasRoom(msg.id)
             THEN /\ IsSome(clients'[msg.id])
                  /\ clients'[msg.id].v.selects =
                        Append(clients[msg.id].v.selects,
                               Directed(clients[msg.id].v.negotiator.v.select))
                  /\ ~IsSome(clients'[msg.id].v.negotiator)
                  /\ Len(enqueued'[msg.id]) = Len(enqueued[msg.id]) + 1
                  /\ enqueued'[msg.id][Len(enqueued'[msg.id])].type = "Ok"
                  /\ inbox'[msg.id] = Append(inbox[msg.id], enqueued'[msg.id][Len(enqueued'[msg.id])])
             ELSE /\ ~IsSome(clients'[msg.id])
                  /\ enqueued'[msg.id] = enqueued[msg.id]
                  /\ inbox'[msg.id] = inbox[msg.id]]_vars

\* C3 (witness): a DATA was processed after a STATION; the select is
\* committed with the sequence number Next, and the second OK is enqueued.
C3_DataCommitsWitness ==
    \E c \in ClientIds :
        /\ IsSome(clients[c])
        /\ Len(clients[c].v.selects) = 1
        /\ clients[c].v.selects[1] # <<>>
        /\ clients[c].v.selects[1][1].seq_num = SeqNext
        /\ ~IsSome(clients[c].v.negotiator)
        /\ Len(enqueued[c]) = 2
        /\ enqueued[c][2].type = "Ok"

(***************************************************************************)
(* C4.  SLPROTO 4.0, then INFO id.                                         *)
(***************************************************************************)
\* C4: a client that has sent SLPROTO 4.0 and then INFO id, and stays
\* connected, has the INFO id forwarded to the main loop and has received
\* exactly one JI packet once the server is at rest; its software is the first
\* line of the HELLO banner and its organization the data-center description.
C4_SlProtoThenInfoId ==
    \A c \in ClientIds :
        SentExactly(c, <<LineSlProto40, LineInfoId>>) /\ ~peer_closed[c] /\ AtRest
        => /\ forwarded[c] = <<2>>
           /\ Len(out[c]) = 1
           /\ out[c][1].t = "packet"
           /\ out[c][1].format = "JI"
           /\ out[c][1].payload.id.software = HelloLines(2)[1].text
           /\ out[c][1].payload.id.organization = DataCenterDescription

(***************************************************************************)
(* C5.  SLPROTO and the lock of the protocol version.                      *)
(***************************************************************************)
\* the errors tcp_read has produced for line n of client c, written or not
Produced(c, n) ==
    SelectSeq(internal[c], LAMBDA msg : msg.n = n)
    \o SelectSeq(out[c], LAMBDA item : item.via = "internal" /\ item.n = n)

\* line n of client c came after a line that locks the protocol version
AfterLock(c, n) ==
    \E k \in 1..(n - 1) :
        ToLowercase(sent[c][k].kw) \notin {NAME_HELLO, NAME_SLPROTO}

\* C5: an SLPROTO received before the lock of the protocol version produces
\* no error, one received after the lock produces at most one, an
\* UnexpectedCommand error with a descriptive message, and the protocol
\* version of a locked codec is the one it was locked with.
C5_SlProtoLock ==
    \A c \in ClientIds :
        /\ codec[c].protocol_version_locked => codec[c].protocol_version = DEFAULT_PROTO_VERSION
        /\ \A n \in DOMAIN sent[c] :
              SameLine(sent[c][n], LineSlProto40)
              => /\ Len(Produced(c, n)) <= 1
                 /\ ~AfterLock(c, n) => Produced(c, n) = <<>>

(***************************************************************************)
(* C6.  A reply for a client whose writer inbox is full.                   *)
(***************************************************************************)
\* the main loop answers the message with a reply
Answered(msg) ==
    \/ msg.type = "ErrorInfo"
    \/ /\ msg.type = "Command"
       /\ \/ msg.cmd.type \in {"Station", "Select", "Data", "Hello", "UserAgent"}
          \/ msg.cmd.type = "Info" /\ msg.cmd.item = "Id"

\* C6: when the main loop has a reply for a client whose writer inbox is
\* full, it removes the client from its map in that same step (its task is
\* aborted, where it can be), enqueues nothing and goes on running; the
\* handles of the other clients, their inboxes and their tasks are as before
\* and the messages behind stay to be served; a main loop with a message in
\* its inbox can always take it.
C6_FullInboxRemoves ==
    [][/\ main = "running" /\ main_inbox # <<>> => ENABLED MainLoop
       /\ main_inbox # <<>> =>
          LET msg == Head(main_inbox)
          IN  Takes(msg) /\ Answered(msg) /\ Len(inbox[msg.id]) >= WriterInboxCapacity
              => /\ ~IsSome(clients'[msg.id])
                 /\ main' = "running"
                 /\ main_inbox' = Tail(main_inbox)
                 /\ inbox' = inbox
                 /\ enqueued' = enqueued
                 /\ actor[msg.id] = "running" /\ ~Spinning(msg.id) => actor'[msg.id] = "aborted"
                 /\ \A d \in ClientIds \ {msg.id} :
                       clients'[d] = clients[d] /\ actor'[d] = actor[d]]_vars

\* C6 (witness): a client was removed with its inbox full and its second
\* command delivered, while another client is registered with a handle that
\* holds a negotiator or user agent information.
C6_FullInboxRemovesWitness ==
    \E c, d \in ClientIds :
        /\ c # d
        /\ ~IsSome(clients[c])
        /\ actor[c] = "aborted"
        /\ Len(inbox[c]) = WriterInboxCapacity
        /\ Len(delivered[c]) = Len(enqueued[c]) + 1
        /\ IsSome(clients[d])
        /\ clients[d].v # NewClientHandle

(***************************************************************************)
(* C7.  Order of commands and of replies.                                  *)
(***************************************************************************)
\* p is a prefix of q
IsPrefix(p, q) == Len(p) <= Len(q) /\ p = SubSeq(q, 1, Len(p))

\* the line numbers of a sequence of items, a run of equal numbers taken once
RECURSIVE Numbers(_)
Numbers(items) ==
    IF items = <<>> THEN <<>>
    ELSE IF Len(items) > 1 /\ items[1].n = items[2].n THEN Numbers(Tail(items))
    ELSE <<items[1].n>> \o Numbers(Tail(items))

VersionList(banner) ==
    LET at == CHOOSE i \in DOMAIN banner : banner[i] = ") ::"
    IN  SubSeq(banner, at + 1, Len(banner))

\* C8: when every client has sent HELLO and nothing else and stays connected,
\* then, once the server is at rest, every client has received exactly two
\* lines, the second being the data-center description, and the first lines
\* of all clients list the same protocol versions.
C8_HelloTwoLines ==
    (\A c \in ClientIds : SentExactly(c, <<LineHello>>) /\ ~peer_closed[c]) /\ AtRest
    => \A c \in ClientIds :
          /\ Len(out[c]) = 2
          /\ out[c][1].t = "line" /\ out[c][2].t = "line"
          /\ out[c][2].text = <<DataCenterDescription>>
          /\ \A d \in ClientIds :
                VersionList(out[c][1].text) = VersionList(out[d][1].text)

\* C8 (witness): two clients have each sent HELLO and each has received two
\* lines.
C8_HelloTwoLinesWitness ==
    /\ Cardinality(ClientIds) >= 2
    /\ \A c \in ClientIds :
          /\ SentExactly(c, <<LineHello>>)
          /\ ~peer_closed[c]
          /\ Len(out[c]) = 2
    /\ AtRest

(***************************************************************************)
(* C9.  A keyword that is no command.                                      *)
(***************************************************************************)
\* C9: for a line FOO bar nothing is sent to the main loop, tcp_read produces
\* at most one error for it, and what the client receives for it is the line
\* ERROR UNSUPPORTED: Command not recognized or not supported: 'FOO', the
\* keyword being the one the client wrote; the connection stays open, so the
\* lines written after it are read.
C9_UnknownKeyword ==
    \A c \in ClientIds : \A n \in DOMAIN sent[c] :
        SameLine(sent[c][n], LineFoo)
        => /\ \A i \in DOMAIN forwarded[c] : forwarded[c][i] # n
           /\ Len(Produced(c, n)) <= 1
           /\ \A i \in DOMAIN out[c] :
                 out[c][i].n = n
                 => /\ out[c][i].via = "internal"
                    /\ out[c][i].text =
                          <<"ERROR ", "UNSUPPORTED", ": ",
                            "Command not recognized or not supported", ": '">>
                          \o sent[c][n].kw \o <<"'">>
           /\ ~peer_closed[c] /\ actor[c] = "running" /\ AtRest
                => rpc[c] = "next" /\ wpc[c] = "run"

(***************************************************************************)
(* C10.  Parse errors of INFO and of other commands.                       *)
(***************************************************************************)
\* the line is an INFO command line
IsInfoLine(l) == ToLowercase(l.kw) = NAME_INFO

\* the line is a command that takes arguments, written without any: a parse
\* error (missing arguments)
Misparsed(l) ==
    /\ l.args = <<>>
    /\ ToLowercase(l.kw) \in {NAME_AUTH, NAME_INFO, NAME_SELECT, NAME_SLPROTO, NAME_STATION,
                              NAME_USERAGENT}

\* tcp_read has taken line n of client c out of its FramedRead
Decoded(c, n) == n <= Len(sent[c]) - Len(sock[c]) - Len(framed[c].buffer)

\* the JE packets enqueued for line n of client c
ErrorPackets(c, n) ==
    SelectSeq(enqueued[c],
              LAMBDA reply : reply.n = n /\ reply.type = "Info" /\ reply.info.type = "Error")

\* how tcp_read passes on parse errors: those of INFO lines to the main loop,
\* with info = true, all others to tcp_write, with info = false, and each
\* along one way only
ErrorsRouted(c) ==
    /\ \A i \in DOMAIN main_inbox :
          main_inbox[i].type = "ErrorInfo" /\ main_inbox[i].id = c
          => /\ IsInfoLine(sent[c][main_inbox[i].n])
             /\ main_inbox[i].err.info
    /\ \A i \in DOMAIN internal[c] :
          ~IsInfoLine(sent[c][internal[c][i].n]) /\ ~internal[c][i].err.info
    /\ \A n \in DOMAIN sent[c] :
          Misparsed(sent[c][n])
          => /\ Len(Produced(c, n)) <= 1
             /\ IF IsInfoLine(sent[c][n])
                THEN Produced(c, n) = <<>>
                ELSE \A i \in DOMAIN forwarded[c] : forwarded[c][i] # n

\* what the client receives for a parse error: a JE packet with the code of
\* the error for an INFO line, an ERROR line for another line
ErrorsWritten(c) ==
    \A i \in DOMAIN out[c] :
        Misparsed(sent[c][out[c][i].n])
        => IF IsInfoLine(sent[c][out[c][i].n])
           THEN /\ out[c][i].t = "packet"
                /\ out[c][i].format = "JE"
                /\ out[c][i].payload.error.code = "ARGUMENTS"
           ELSE /\ out[c][i].t = "line"
                /\ out[c][i].via = "internal"
                /\ SubSeq(out[c][i].text, 1, 3) = <<"ERROR ", "ARGUMENTS", ": ">>

SeqNumSet == sel_op.op = "set_seq_num"

\* a numeric update moved station i forward, or left it as it was
Forward(i) ==
    \/ sel[i].seq_num = sel_prev[i].seq_num
           /\ ~(sel_prev[i].seq_num.tag = "Number" /\ sel_op.seq_num.n > sel_prev[i].seq_num.n)
    \/ sel[i].seq_num = sel_op.seq_num
           /\ sel_prev[i].seq_num.tag = "Number"
           /\ sel_op.seq_num.n > sel_prev[i].seq_num.n

\* C11: set_seq_num(Number(n)) changes a station's seq_num only to a strictly
\* larger number and is a no-op otherwise, while set_seq_num(All) and
\* set_seq_num(Next) overwrite the seq_num of every station
C11_SeqNumForward ==
    SeqNumSet =>
        \A i \in DOMAIN sel :
            IF sel_op.seq_num.tag = "Number" THEN Forward(i) ELSE sel[i].seq_num = sel_op.seq_num

\* C11, amended: the above for the stations that have a selected stream; a
\* station without a selected stream keeps its seq_num under every set_seq_num
C11_SeqNumForwardOfSelected ==
    SeqNumSet =>
        \A i \in DOMAIN sel :
            IF ~StationHasSelected(sel_prev[i]) THEN sel[i].seq_num = sel_prev[i].seq_num
            ELSE IF sel_op.seq_num.tag = "Number" THEN Forward(i)
            ELSE sel[i].seq_num = sel_op.seq_num

\* set_seq_num(All) has overwritten the number of a station with a selected
\* stream and has left a station without one as it was
C11_SeqNumForwardWitness ==
    /\ SeqNumSet
    /\ sel_op.seq_num = SeqAll
    /\ \E i \in DOMAIN sel :
          /\ StationHasSelected(sel_prev[i])
          /\ sel_prev[i].seq_num.tag = "Number"
          /\ sel[i].seq_num = SeqAll
    /\ \E i \in DOMAIN sel :
          /\ ~StationHasSelected(sel_prev[i])
          /\ sel[i].seq_num = sel_prev[i].seq_num
          /\ sel[i].seq_num # SeqAll

\* C12: a stream that an apply with exclude = true has matched is not
\* is_selected() after any later calls
C12_ExclusionDominates ==
    \A s \in sel_excluded : ~IsSelected(sel[s[1]].streams[s[2]])

\* an apply with exclude = false has just matched a stream excluded before
C12_ExclusionDominatesWitness ==
    /\ sel_op.op = "apply"
    /\ ~sel_op.pattern.exclude
    /\ \E s \in sel_excluded :
          /\ Matches(sel_op.pattern, sel[s[1]].streams[s[2]])
          /\ sel[s[1]].streams[s[2]].selected
          /\ sel_prev[s[1]].streams[s[2]].excluded

\* C14: every stream select that has a filter set has excluded = false
C14_FilterNotExcluded ==
    \A s \in Streams(sel) :
        IsSome(sel[s[1]].streams[s[2]].filter) => ~sel[s[1]].streams[s[2]].excluded

(***************************************************************************)
(* Properties of the negotiator on its own.                                *)
(***************************************************************************)
\* some stream pattern of the SELECT commands fed matched a stream of the Select
SomePatternMatched ==
    \E k \in DOMAIN neg_cmds :
        /\ neg_cmds[k].type = "Select"
        /\ \E n \in DOMAIN neg_cmds[k].patterns :
              \E s \in Streams(neg.select) :
                  Matches(neg_cmds[k].patterns[n], neg.select[s[1]].streams[s[2]])

\* C13: once DATA has finished the negotiation, the Select has_selected() if
\* and only if a stream pattern of the SELECT commands matched one of its streams
C13_SelectedIffMatched ==
    neg.state = "Finished" => (HasSelected(neg.select) <=> SomePatternMatched)

(***************************************************************************)
(* Properties of the codec on its own.                                     *)
(***************************************************************************)
\* every byte has arrived and decode has returned Ok(None) since
DecDone == dec_input = <<>> /\ dec_idle

TooLong == Item(Err([kind |-> "CommandLineTooLong"]))

\* C15: a blob of 300 bytes without line ending, <CR><LF> and a valid command
\* line yield one CommandLineTooLong and then the command, nothing else in
\* between, and the command does not wait for further bytes
C15_BlobThenCommand ==
    dec_case.kind = "blob" =>
        /\ IsPrefix(dec_out, <<TooLong, Item(CommandParse(dec_case.c))>>)
        /\ DecDone => dec_out = <<TooLong, Item(CommandParse(dec_case.c))>>

\* what decode returns first for c followed by <LF>, all in the buffer
Reference(c) == DecodeBytes(DecoderNew, c \o <<LF>>).result

\* C16: a command c followed by any of the terminators <CR>, <LF>, <CR><LF>
\* decodes to what c followed by <LF> decodes to, and the terminator yields no
\* further command or error
C16_TerminatorsAgree ==
    dec_case.kind = "line" =>
        /\ IsPrefix(dec_out, <<Reference(dec_case.c)>>)
        /\ DecDone => dec_out = <<Reference(dec_case.c)>>

\* the longest command the limit lets through, ended by <CR><LF>, has been
\* decoded and the buffer holds nothing of its terminator
C16_TerminatorsAgreeWitness ==
    /\ dec_case.kind = "line"
    /\ dec_case.t = <<CR, LF>>
    /\ Len(dec_case.c) = MAX_COMMAND_LINE_LENGTH - 1
    /\ DecDone
    /\ dec_buf = <<>>
    /\ dec_out = <<Item(CommandParse(dec_case.c))>>
    /\ dec.next_index = 0

\* C17: a command line longer than 255 bytes with its terminator yields
\* CommandLineTooLong and never a command; a line of at most 255 bytes with
\* its terminator is parsed
C17_LengthLimit ==
    (dec_case.kind = "line" /\ DecDone) =>
        IF Len(dec_case.c) + Len(dec_case.t) > MAX_COMMAND_LINE_LENGTH
        THEN dec_out = <<TooLong>>
        ELSE dec_out = <<Item(MapErr(CommandParse(dec_case.c)))>>

\* the number of times cmd occurs among the commands written
Written(cmd, wrote) == Cardinality({i \in DOMAIN wrote : wrote[i] = cmd})

\* configure has returned Ok for a non-empty list of stream configs
ConfiguredOk ==
    /\ v3_last.op = "configure"
    /\ v3_last.ret = V3Ok
    /\ Len(v3_last.args[1]) > 0

\* C18: when configure returns Ok for a non-empty list of stream configs, then if at least one
\* station was accepted it has written exactly one END, the decoder is in the DataTransfer
\* phase and the state is DataTransfer; otherwise it has written no END, the decoder is in
\* the HandShaking phase and the state is Initialized.
C18_ConfigureOutcome ==
    ConfiguredOk =>
        IF v3_last.accepted_sta_cnt > 0
        THEN /\ Written("END", v3_last.wrote) = 1
             /\ v3.phase = "DataTransfer"
             /\ v3.state = "DataTransfer"
        ELSE /\ Written("END", v3_last.wrote) = 0
             /\ v3.phase = "HandShaking"
             /\ v3.state = "Initialized"

\* configure returned Ok with a station the peer accepted by OK (no batch mode), END written
C18_ConfigureOutcomeWitness ==
    /\ ConfiguredOk
    /\ v3_last.accepted_sta_cnt > 0
    /\ ~v3.batch_cmd_mode
    /\ v3_last.wrote[Len(v3_last.wrote)] = "END"

\* the last operation was called in a state in which it is not valid: say_hello once the
\* handshaking has started, request_info, configure or try_send_keep_alive once Closed
StrayOperation ==
    \/ /\ v3_last.op = "say_hello"
       /\ StateRank(v3_last.state) >= StateRank("HandShaking")
    \/ /\ v3_last.op \in {"request_info", "configure", "try_send_keep_alive"}
       /\ v3_last.state = "Closed"

\* C19: an operation of the v3 client session called in a state in which it is not valid
\* returns ClientError("invalid connection state") and writes nothing to the connection.
C19_StrayOperationRejected ==
    StrayOperation =>
        /\ v3_last.ret = V3ClientError("invalid connection state")
        /\ v3_last.wrote = <<>>

\* the last operation is a request_info called while expect_info_resp was true
SecondInfoRequest ==
    /\ v3_last.op = "request_info"
    /\ v3_last.expect_info_resp

\* C20: while an INFO request is unacknowledged (expect_info_resp is true), a further
\* request_info returns ClientError("multiple concurrent info requests are not allowed")
\* and writes no INFO command to the connection.
C20_ConcurrentInfoRejected ==
    SecondInfoRequest =>
        /\ v3_last.ret = V3ClientError("multiple concurrent info requests are not allowed")
        /\ Written("INFO", v3_last.wrote) = 0

\* request_info was called with an INFO unacknowledged on a connection still open for
\* writing, where the INFO command would otherwise have been written
C20_ConcurrentInfoRejectedWitness ==
    /\ SecondInfoRequest
    /\ v3.open
    /\ v3.expect_info_resp

\* an entry of the log of an operation: a command written, a frame read
IsWrite(e) == DOMAIN e = {"w"}
IsRead(e) == DOMAIN e = {"r"}

\* the commands of a station: STATION, SELECT and the action command
StationCommands == {"STATION", "SELECT", "DATA", "FETCH", "TIME"}

\* the position of the STATION command that the command at position i follows
StationOf(io, i) ==
    CHOOSE s \in 1..i : /\ io[s] = [w |-> "STATION"]
                        /\ \A j \in (s + 1)..i : io[j] # [w |-> "STATION"]

\* in non-batch mode a station command is followed by exactly one frame read before the
\* next command is written
OneReplyEach(io) ==
    \A i \in DOMAIN io :
        IsWrite(io[i]) /\ io[i].w \in StationCommands /\ i < Len(io) =>
            /\ IsRead(io[i + 1])
            /\ i + 2 <= Len(io) => IsWrite(io[i + 2])

\* SELECT and the action command are written only for a station answered OK
OnlyAfterOk(io) ==
    \A i \in DOMAIN io :
        IsWrite(io[i]) /\ io[i].w \in StationCommands \ {"STATION"} =>
            /\ \E s \in 1..i : io[s] = [w |-> "STATION"]
            /\ io[StationOf(io, i) + 1] = [r |-> "Ok"]

\* a station answered ERROR is skipped: what is written next is the next STATION or END
ErrorSkips(io) ==
    \A i \in DOMAIN io :
        io[i] = [w |-> "STATION"] /\ i + 2 <= Len(io) /\ io[i + 1] = [r |-> "Error"] =>
            io[i + 2] \in {[w |-> "STATION"], [w |-> "END"]}

\* in batch mode the only frame read is the reply to BATCH
OnlyBatchAwaited(io) ==
    \A i \in DOMAIN io : IsRead(io[i]) => i = 2 /\ io[1] = [w |-> "BATCH"]

\* C28: during configure in non-batch mode every STATION, SELECT and action command is
\* followed by reading exactly one reply frame before the next command is written, SELECT and
\* action commands are written only for a station whose STATION was answered OK, and a station
\* answered ERROR is skipped; in batch mode only the reply to BATCH is read and every later
\* command, END included, is written without reading a frame.
C28_ReplyDiscipline ==
    IF v3_last.op # "configure" THEN TRUE
    ELSE IF v3.batch_cmd_mode THEN OnlyBatchAwaited(v3_last.io)
    ELSE OneReplyEach(v3_last.io) /\ OnlyAfterOk(v3_last.io) /\ ErrorSkips(v3_last.io)

\* a non-batch configure in which a station was answered ERROR and the next STATION was
\* written and answered OK, followed by its action command
C28_ReplyDisciplineWitness ==
    /\ v3_last.op = "configure"
    /\ ~v3.batch_cmd_mode
    /\ Len(v3_last.io) >= 5
    /\ SubSeq(v3_last.io, 1, 4) =
           <<[w |-> "STATION"], [r |-> "Error"], [w |-> "STATION"], [r |-> "Ok"]>>
    /\ IsWrite(v3_last.io[5])

(***************************************************************************)
(* C21.  Frame::End and unexpected frames in the packet stream.            *)
(***************************************************************************)
\* the frame the last poll of the stream read, "Nothing" when read_frame failed
FrameRead == IF v3_last.io = <<>> THEN "Nothing" ELSE v3_last.io[1].r

\* the last poll read a frame that is no packet and not End
UnexpectedFrame ==
    FrameRead \notin {"Nothing", "GenericDataPacket", "INFO_LAST", "INFO_MORE", "INFO_ERR", "End"}

TooLongDone(c) ==
    /\ rpc[c] = "done"
    /\ IsSome(next_cmd[c])
    /\ IsErr(next_cmd[c].v.r)
    /\ next_cmd[c].v.r.e.kind = "CommandLineTooLong"

\* the Generic error for line n, as tcp_read sends it and as tcp_write writes it
GenericSent(n) == [err |-> NewError("Generic"), n |-> n]
GenericWritten(n) == EncodeInternal(GenericSent(n))[1]

\* how often an item occurs in a queue
Count(queue, item) == Cardinality({i \in DOMAIN queue : queue[i] = item})

ValidAfterError(c, n) ==
    /\ n \in DOMAIN sent[c]
    /\ ~sent[c][n].long
    /\ IsOk(CommandFromStr(sent[c][n]))
    /\ CommandFromStr(sent[c][n]).v.type \notin {"SlProto", "Unknown"}
    /\ \E m \in 1..(n - 1) : ~sent[c][m].long /\ IsErr(CommandFromStr(sent[c][m]))
    /\ \A m \in 1..(n - 1) : ~sent[c][m].long

\* C30: after a ProtocolError the reader keeps the connection open and every valid
\* command line the client sends afterwards is decoded and processed, in order:
\* once the server is at rest with the client still served, each such line has
\* been forwarded to the main loop, and lines are forwarded in the order sent.
C30_ValidLinesAfterError ==
    \A c \in ClientIds :
        /\ \A i, j \in DOMAIN forwarded[c] : i < j => forwarded[c][i] < forwarded[c][j]
        /\ AtRest /\ actor[c] = "running" /\ main = "running" /\ IsSome(clients[c])
             => \A n \in DOMAIN sent[c] :
                   ValidAfterError(c, n) => \E i \in DOMAIN forwarded[c] : forwarded[c][i] = n

(***************************************************************************)
(* C22.  An INFO packet in the handshaking phase.                          *)
(***************************************************************************)
\* everything sent has arrived and has been decoded
V3DecDone == dec_input = <<>> /\ dec_idle

\* C22: input that begins with SLINFO followed by 514 further bytes decodes, for
\* every split into reads, to exactly one InfoPacket frame holding those 520
\* bytes; no Line, Ok, Error or End frame is made of any of them: the first frame
\* is never anything else, and the frames after it are those of what follows.
C22_InfoPacketWhole ==
    dec_case.kind = "info"
    => /\ dec_out # <<>> => dec_out[1] = V3Frame("InfoPacket", dec_case.c)
       /\ Len(dec_out) >= 2 => dec_out = <<V3Frame("InfoPacket", dec_case.c), V3Frame("Ok", <<>>)>>
       /\ Len(dec_case.c) = HEADER_SIZE + RECORD_SIZE
       /\ V3DecDone => Len(dec_out) = 2

\* C22 (witness): the packet arrived in three reads or more, cut inside its signature or
\* inside its record, which holds line endings, and was decoded as one InfoPacket.
C22_InfoPacketWholeWitness ==
    /\ dec_case.kind = "info"
    /\ dec_case.c[HEADER_SIZE + RECORD_SIZE] = LF
    /\ dec_feeds >= 3
    /\ V3DecDone
    /\ dec_out[1] = V3Frame("InfoPacket", dec_case.c)

(***************************************************************************)
(* C23.  The terminators of a response line.                               *)
(***************************************************************************)
\* the frame of a response line with the given content
V3LineFrame(content) ==
    IF content = OK_SIGNATURE THEN V3Frame("Ok", <<>>)
    ELSE IF content = ERROR_SIGNATURE THEN V3Frame("Error", <<>>)
    ELSE V3Frame("Line", content)

\* the line begins with the signature of END
BeginsWithEnd(content) ==
    IF Len(content) < Len(END_SIGNATURE) THEN FALSE
    ELSE SubSeq(content, 1, Len(END_SIGNATURE)) = END_SIGNATURE

\* C23: a response line yields the same frame whether it is terminated by <CR><LF>,
\* by a bare <LF> or by a bare <CR>: once all bytes are decoded, the first frame is
\* the frame of the line's content (OK<LF> gives Frame::Ok), with no content byte
\* removed, and the OK line after it gives Frame::Ok (lines that begin with END
\* aside).
C23_TerminatorsAlike ==
    dec_case.kind = "line" /\ ~BeginsWithEnd(dec_case.c) /\ V3DecDone
    => dec_out = <<V3LineFrame(dec_case.c), V3Frame("Ok", <<>>)>>

(***************************************************************************)
(* C24.  The protocol version chosen at connect.                           *)
(***************************************************************************)
\* the major versions a banner advertises: that of the version after " v" and those
\* of its SLPROTO entries
Advertised(banner) ==
    { ParseU8(Split(v, ".")[1]).v :
        v \in { w \in {banner.version} \cup {banner.slprotos[i] : i \in DOMAIN banner.slprotos} :
                  IsOk(ParseU8(Split(w, ".")[1])) } }

\* a banner of a SeedLink server: the identifier SeedLink in any case and a version
\* of the form major.minor
SeedLinkBanner(banner) ==
    /\ ToLowercase(banner.id) = <<"s","e","e","d","l","i","n","k">>
    /\ Len(banner.version) = 3
    /\ IsDigit(banner.version[1]) /\ banner.version[2] = "." /\ IsDigit(banner.version[3])

\* C24: for a peer that answers HELLO with the banner of a SeedLink server, connect
\* yields a v3 connection exactly when major version 3 is among the versions the
\* banner advertises (the version after " v" and every SLPROTO entry) and the caller
\* pinned no version the peer lacks; in every other case it fails with ClientError.
C24_ConnectChoosesV3 ==
    call.fn = "connect" /\ SeedLinkBanner(call.banner)
    => IF /\ 3 \in Advertised(call.banner)
          /\ IsSome(call.protocol_version) => call.protocol_version.v \in Advertised(call.banner)
       THEN call.ret = Ok(3)
       ELSE IsErr(call.ret) /\ call.ret.e.tag = "ClientError"

(***************************************************************************)
(* C27.  Display and parse of a v4 command.                                *)
(***************************************************************************)
\* C27: for every value that Command::parse returns for a documented command with
\* canonical arguments, parsing the text Display gives for it yields an equal value.
C27_DisplayRoundTrip ==
    call.fn = "parse" /\ IsOk(call.parsed) => call.reparsed = call.parsed

\* the states in which seq_num(sid) has returned after stores of the sid, none of
\* them still running
SeqNumAfterStores ==
    /\ db_last.op = "seq_num"
    /\ db_last.completed # 0
    /\ ~db_last.running

\* C25 as stated: after any sequence of store calls, also from clones in concurrent
\* tasks, seq_num(sid) returns Some(v) with v the value of the most recently completed
\* store of the sid.
C25_LastCompletedStore ==
    SeqNumAfterStores => db_last.ret = Ok(Some(db_last.completed))

\* C25 amended: seq_num(sid) returns Some(v) with v the value of the store of the sid
\* whose REPLACE ran last, which is the most recently completed store of the sid
\* whenever no two stores of the sid overlapped.
C25_LastWrittenStore ==
    SeqNumAfterStores =>
        /\ db_last.ret = Ok(Some(db_last.written))
        /\ ~db_last.overlapped => db_last.ret = Ok(Some(db_last.completed))

\* C25 witness: the two tasks have each stored a different value at the same sid, one
\* after the other, and seq_num has returned the value stored second.
C25_LastWrittenStoreWitness ==
    /\ SeqNumAfterStores
    /\ ~db_last.overlapped
    /\ db.stores = 2
    /\ \A t \in DbTasks : db.tasks[t].pc = "idle" /\ db.tasks[t].sid = db_last.sid
    /\ db.tasks[1].seq # db.tasks[2].seq
    /\ db.completed[db_last.sid] = db_last.completed
    /\ db_last.ret = Ok(Some(db_last.completed))

\* the stations of the rows of the database
DbStations(rows) == {<<Sids[i].net, Sids[i].sta>> : i \in {j \in DOMAIN rows : rows[j] # 0}}

\* C26: configure_from_state_db negotiates exactly the stations recorded in the
\* StateDB, one STATION per distinct network and station of the database and one
\* SELECT per stored stream identifier, whatever was added with add_stream.
C26_ConfiguresStationsOfStateDb ==
    (db_last.op = "configure_from_state_db" /\ db_last.ret = V3Ok) =>
        /\ Count(db_last.wrote, "STATION") = Cardinality(DbStations(db_last.rows))
        /\ Count(db_last.wrote, "SELECT")
             = Cardinality({j \in DOMAIN db_last.rows : db_last.rows[j] # 0})

\* the frame the last poll of the packet stream has read
PolledFrame == v3_last.io[Len(v3_last.io)].r

\* C31: the pending-INFO flag, once set, is cleared only when the terminal INFO packet
\* of the response (header flag other than '*') has been received; a poll of the packet
\* stream that reads a fragment followed by more leaves the flag set.
C31_FlagClearedByLastPacket ==
    (v3_last.op = "next" /\ v3_last.expect_info_resp /\ ~v3.expect_info_resp) =>
        (v3_last.io # <<>> /\ PolledFrame \in {"INFO_LAST", "INFO_ERR"})

\* C38: whenever request_info returns, with the XML or with UnsupportedCommand for an
\* ERR info packet, expect_info_resp is false.
C38_RequestInfoClearsFlag ==
    (v3_last.op = "request_info" /\ v3_last.ret.tag \in {"Ok", "UnsupportedCommand"}) =>
        ~v3.expect_info_resp

\* the frame of a response line by its complete content
V3ResponseFrame(content) ==
    IF content = END_SIGNATURE THEN V3Frame("End", <<>>) ELSE V3LineFrame(content)

\* C32: in the handshaking phase a response line ended by <CR><LF> produces exactly one
\* frame, chosen by the complete line: Ok, Error and End for the exact lines OK, ERROR
\* and END, and Line with the unchanged content for every other line, also one that
\* begins with END; the OK line after it gives Frame::Ok.
C32_OneFramePerLine ==
    (dec_case.kind = "line" /\ dec_case.t = <<CR, LF>> /\ V3DecDone)
    => dec_out = <<V3ResponseFrame(dec_case.c), V3Frame("Ok", <<>>)>>

\* NewClient of client c stands in the inbox of the main loop before position i
NewClientBefore(c, i) ==
    \E j \in 1..(i - 1) : main_inbox[j] = [type |-> "NewClient", id |-> c]

\* C33: for every client, the main loop receives NewClient before any Command, ErrorInfo
\* or DisconnectClient carrying its id: such a message in the inbox of the main loop has
\* the NewClient of its client before it, or the main loop has received it already.
C33_NewClientFirst ==
    \A i \in DOMAIN main_inbox :
        main_inbox[i].type # "NewClient" =>
            IF registered[main_inbox[i].id] THEN TRUE
            ELSE NewClientBefore(main_inbox[i].id, i)

\* C33 (witness): a command of a client waits in the inbox of the main loop behind the
\* NewClient of that client, which the main loop has not received yet.
C33_NewClientFirstWitness ==
    \E i \in DOMAIN main_inbox :
        /\ main_inbox[i].type = "Command"
        /\ ~registered[main_inbox[i].id]
        /\ NewClientBefore(main_inbox[i].id, i)

\* C39: the protocol version held by the codec of every client always has the major
\* version the codec can decode, 4.
C39_CodecVersionDecodable ==
    \A c \in ClientIds : codec[c].protocol_version.major = 4

\* C34: Command::parse returns a command or a ProtocolErrorV4 for every command line,
\* DATA without arguments and DATA with arguments included; it never panics.
C34_ParseNeverPanics ==
    call.fn = "parse" => IsOk(call.parsed) \/ IsErr(call.parsed)

\* C35: no sequence of commands of the clients makes the main loop terminate or panic;
\* no client sends FatalError and the inbox is never closed, so the main loop runs.
C35_MainLoopRuns == main = "running"

\* the task of the client actor has ended: it returned, panicked or was aborted
ActorEnded(c) == actor[c] \in {"finished", "panicked", "aborted"}

\* C36: every client registered in the client map is removed from it once its
\* connection has ended, whatever made the actor stop: when the server has come to rest,
\* with nothing left in the inbox of the main loop, the map holds no handle of a client
\* whose actor has ended.
C36_EndedClientsRemoved ==
    AtRest => \A c \in ClientIds : ActorEnded(c) => ~IsSome(clients[c])

\* C37: the replies written to the socket of a client appear in the order of the
\* command lines that caused them, whether the reader task or the main loop produced
\* them.
C37_RepliesInCommandOrder ==
    \A c \in ClientIds :
        \A i, j \in DOMAIN out[c] : i < j => out[c][i].n <= out[c][j].n

\* the number a hexadecimal text of one or two digits stands for
HexValue(text) ==
    LET digit(ch) == (CHOOSE i \in DOMAIN HexDigits : HexDigits[i] = ch) - 1
    IN  IF Len(text) = 1 THEN digit(text[1]) ELSE 16 * digit(text[1]) + digit(text[2])

\* the sequence numbers a station had before recover_state and has in the database
ResumePoints(stream_config, rows) ==
    (IF IsSome(stream_config.seq_num) THEN {HexValue(stream_config.seq_num.v)} ELSE {})
    \cup { rows[i] : i \in { k \in DOMAIN rows :
                                /\ rows[k] # 0
                                /\ Sids[k].net = stream_config.network
                                /\ Sids[k].sta = stream_config.station } }

\* C40: after recover_state the seq_num of every configured station is the hexadecimal
\* text of the numerically largest of the sequence number it had before and the
\* sequence numbers of the database for its network and station.
C40_RecoverLargest ==
    db_last.op = "recover_state" =>
        \A j \in DOMAIN db_last.before :
            IF ResumePoints(db_last.before[j], db_last.rows) = {}
            THEN db.stream_configs[j].seq_num = None
            ELSE db.stream_configs[j].seq_num
                    = Some(FormatHex(Max(ResumePoints(db_last.before[j], db_last.rows))))
====
